---- MODULE Spec2Model ----
(***************************************************************************)
(* Session relay and turn coordination of the 3cx-translator servers.      *)
(*                                                                         *)
(* One client session of server/gemini_server.py (manual VAD, persistent  *)
(* Gemini Live channel) or of server/openai_server.py (server VAD).        *)
(* Every asyncio task is a process of the model; a step of a process runs  *)
(* from one await to the next.  A send, to the client websocket or to the  *)
(* provider, is taken not to suspend its caller: it returns or raises.     *)
(***************************************************************************)
EXTENDS Integers, Sequences, FiniteSets, TLC

\* ---------------------------------------------------------------- bounds
\* Session tasks (_run_streaming_session) that can be alive at once.
MaxTasks == 2
\* Audio chunks the client sends to a streaming session.
MaxChunks == 2

\* Provider messages whose handling one run records.
MaxEvents == 3

\* Binary frames, of FrameBytes each, that the batch buffer can hold.
MaxFrames == 3
\* Calls of process_audio in one run.
MaxRequests == 2
\* Audio deltas, and transcript deltas, of one response of the OpenAI
\* provider; responses of one connection.
MaxDeltas == 2
MaxResponses == 2
\* Samples in a buffer passed to resample_audio.
MaxSamples == 30

\* ------------------------------------------------------------- constants
None == 0

\* The buffer size below which translate is rejected (line 1122).
MinAudioBytes == 1600

\* 25 ms of 16 kHz PCM16 audio, in bytes.
FrameBytes == 800

\* Sample rates of the provider's audio and of the client's (line 759).
GeminiRate == 24000
ClientRate == 16000

\* An audio chunk: its number in the order the client sent the chunks, and
\* turn_active and waiting_for_turn_complete as they were when
\* send_audio_chunk took it.
Chunk(n, t, w) == [id |-> n, turn |-> t, wait |-> w]

\* The poison pill of close_streaming_session (line 847).
Sentinel == [id |-> 0, turn |-> FALSE, wait |-> FALSE]

TaskIds == 1..MaxTasks

\* Language pairs: the configured default and the pairs a client sends.
DefaultPair == <<"auto", "it">>
ConfigPairs == {<<"de", "it">>}

\* The pairs sent in batch mode include one with equal languages.
BatchPairs == ConfigPairs \cup {<<"it", "it">>}

\* Sizes of the binary frames a client sends: 25 ms and 50 ms of audio.
FrameSizes == {FrameBytes, 2 * FrameBytes}

\* The codes of the error messages sent for client messages; in client_out
\* an error message with one of these codes is written as the code.
ErrorCodes ==
  {"INVALID_JSON", "UNKNOWN_MESSAGE", "SERVER_ERROR", "AUDIO_TOO_SHORT",
   "TRANSLATION_ERROR", "INVALID_LANGUAGE"}

\* A text frame that is not a control message: not JSON, JSON that is not
\* an object, or an object without a known type.
MalformedKinds == {"invalid_json", "not_object", "unknown_type"}

\* The languages both servers accept as source or target.
SUPPORTED_LANGUAGES == {"de", "es", "en", "fr", "it"}

\* Callers of the close operation: the connection handler, and a second,
\* concurrent invocation used when close is exercised on its own.
Callers == {"h", "x"}

\* Cancellation requests counted on one task: one per caller of close.
MaxCancel == Cardinality(Callers)

\* A provider message: which parts of server_content it carries.  The
\* provider sends one part per message, or a model turn together with the
\* turn_complete flag.
Msgs ==
  { m \in [inTr : BOOLEAN, mt : BOOLEAN, outTr : BOOLEAN, tc : BOOLEAN] :
      \/ Cardinality({f \in {"inTr", "mt", "outTr", "tc"} : m[f]}) = 1
      \/ (m.mt /\ m.tc /\ ~m.inTr /\ ~m.outTr) }

\* Sizes, in samples, of the audio the provider sends in one model_turn
\* part: 10 ms and 20 ms of 24 kHz PCM16.
Payloads == {240, 480}

\* The provider events of a streaming turn: an audio delta, a turn_complete
\* on its own or together with an audio delta, an output transcript.
AudioDelta(b) ==
  [inTr |-> FALSE, mt |-> TRUE, outTr |-> FALSE, tc |-> FALSE, data |-> b]

TurnComplete ==
  [inTr |-> FALSE, mt |-> FALSE, outTr |-> FALSE, tc |-> TRUE, data |-> 0]

Transcript ==
  [inTr |-> FALSE, mt |-> FALSE, outTr |-> TRUE, tc |-> FALSE, data |-> 0]

RelayMsgs ==
  {AudioDelta(b) : b \in Payloads}
    \cup {[AudioDelta(240) EXCEPT !.tc = TRUE], TurnComplete, Transcript}

\* What one run explores: the client streams audio into a session that has
\* one session task at a time, or it sends control messages only and up to
\* MaxTasks session tasks are alive at once.
Limits ==
  { [tasks |-> 1, chunks |-> MaxChunks, events |-> 0],
    [tasks |-> MaxTasks, chunks |-> 0, events |-> 0] }

VARIABLES
  server,                      \* which server process this is
  limits,                      \* the element of Limits of this run
  source_lang, target_lang,    \* ClientSession fields (gemini_server.py)
  streaming_enabled,
  streaming_ready,
  gemini_session,              \* None, or the task whose channel it is
  session_task,                \* None, or a task id
  has_queue,                   \* audio_queue is not None
  audio_queue,                 \* content of the asyncio.Queue
  is_closing,
  in_model_turn,
  turn_active,
  waiting_for_turn_complete,
  sessions,                    \* server.sessions (ids registered)
  tasks,                       \* the _run_streaming_session tasks
  hpc, hctx,                   \* position of websocket_translate
  cpc, cwait,                  \* position of each close_streaming_session
  nextChunk,                   \* id of the next client audio chunk
  forwarded,                   \* chunks passed to send_realtime_input
  dropped,                     \* chunks _send_loop took and did not pass on
  client_out,                  \* messages the last step sent to the client
  active,                      \* ClientSession fields (openai_server.py)
  openai_ws,                   \* None, or the provider websocket
  openai_listener_task,        \* None, or the listener task
  periodic_task,               \* None, or the periodic commit task
  translation_mode,
  listener,                    \* the openai_event_listener task
  periodic,                    \* the periodic_commit_task task
  periodic_alive,              \* periodic_commit_task tasks not yet finished
  ws_close_calls,              \* calls of openai_ws.close()
  heard,                       \* provider messages _receive_loop handled
  relayed,                     \* what it sent to the client for them
  audio_buffer,                \* len(session.audio_buffer), in bytes
  requests,                    \* byte counts passed to process_audio
  client_api_key,              \* server.config.client_api_key ("" if unset)
  is_speaking,                 \* ClientSession fields (openai_server.py)
  is_responding,
  current_response_id,
  source_text,                 \* 0 for "", else 1
  translated_text,             \* the transcript deltas appended, in order
  deltas_received,             \* transcript deltas since response.created
  translation_msgs,            \* translated_text of each translation message
                               \* the client got for the latest response
  stream_audio,
  listener_audio_buffer,       \* audio deltas in the listener's audio_buffer
  openai_out,                  \* what a step last sent to OpenAI
  cancelled,                   \* response.cancel was sent for this response
  resample_args,               \* <<len(audio), orig_sr, target_sr>> of a call
  resampled_len,               \* length of what resample_audio returned
  audio_received_since_commit, \* ClientSession field (openai_server.py)
  periodic_pc,                 \* where periodic_commit_task is suspended
  response_requested,          \* response.create sent, response.done not
                               \* yet handled
  uncommitted                  \* a chunk was forwarded outside a response
                               \* and no commit has been sent since

gvars == <<source_lang, target_lang, streaming_enabled, streaming_ready,
           gemini_session, session_task, has_queue, audio_queue, is_closing,
           in_model_turn, turn_active, waiting_for_turn_complete, sessions,
           tasks, hpc, hctx, cpc, cwait, nextChunk, forwarded, dropped, client_out>>

ovars == <<active, openai_ws, openai_listener_task, periodic_task,
           translation_mode, listener, periodic, periodic_alive,
           ws_close_calls>>

\* The fields and tasks that the tasks, the connect and the close of the
\* OpenAI server leave alone.
gonly == <<source_lang, target_lang, streaming_enabled, streaming_ready,
           gemini_session, session_task, has_queue, audio_queue, is_closing,
           in_model_turn, turn_active, waiting_for_turn_complete, tasks,
           nextChunk, forwarded, dropped>>

\* The batch buffer and the records of what was relayed and requested.
xvars == <<heard, relayed, audio_buffer, requests>>

\* The configured client key, and the turn of an OpenAI session.
yvars == <<client_api_key, is_speaking, is_responding, current_response_id, source_text,
           translated_text, deltas_received, translation_msgs, stream_audio, listener_audio_buffer, openai_out,
           cancelled, resample_args, resampled_len,
           audio_received_since_commit, periodic_pc, response_requested,
           uncommitted>>

vars == <<server, limits, xvars, yvars, gvars, ovars>>

\* ------------------------------------------------------------- helpers
\* A slot that holds no live task: never started, or finished.  langs is
\* the language pair a task built its system instruction from.
NoTask ==
  [st |-> "none", cancel |-> 0, send |-> "done", recv |-> "done",
   langs |-> <<>>]

\* A background task of the OpenAI server that is not running.
NoJob == [st |-> "none", cancel |-> 0]

TranslationModes == {"vad", "periodic"}

FreeSlots == { i \in TaskIds : tasks[i].st = "none" }

NewTaskId == CHOOSE i \in FreeSlots : \A j \in FreeSlots : i <= j

LiveTasks == { i \in TaskIds : tasks[i].st \in {"connecting", "running"} }

\* The client websocket no longer accepts sends.
ClientGone == hpc = "done" \/ (hpc = "close" /\ hctx = "finally")

\* asyncio.Queue.get: the oldest item (a mutant takes the newest).
DequeueNewest(q) == [item |-> q[Len(q)], rest |-> SubSeq(q, 1, Len(q) - 1)]

Dequeue(q) == [item |-> Head(q), rest |-> Tail(q)]

\* _send_loop: the test a dequeued chunk passes before it is forwarded
\* (a mutant omits the waiting_for_turn_complete test).
MayForwardNoWait == turn_active

MayForward == ~waiting_for_turn_complete /\ turn_active

\* websocket_translate, line 977: a binary frame goes to the streaming
\* session (a mutant omits the streaming_ready test).
StreamingModeEnabled == streaming_enabled

StreamingMode == streaming_enabled /\ streaming_ready

\* send_audio_chunk, line 588: the test under which a chunk is queued.
Admit == has_queue /\ ~is_closing

\* create_streaming_session, line 399: asyncio.Queue() is built without a
\* maxsize, which asyncio takes as 0: no limit.  put_nowait (line 589)
\* raises QueueFull only on a queue with a positive maxsize that holds as
\* many items.
QueueMaxSize == 0

QueueFull(q) == QueueMaxSize > 0 /\ Len(q) >= QueueMaxSize

\* The parts of a provider message in the order _receive_loop handles them.
HasPart(m, j) ==
  CASE j = 1 -> m.inTr
    [] j = 2 -> m.mt
    [] j = 3 -> m.outTr
    [] j = 4 -> m.tc
    [] OTHER -> FALSE

NextStage(m, k) ==
  IF \E j \in (k + 1)..4 : HasPart(m, j)
    THEN CHOOSE j \in (k + 1)..4 :
           HasPart(m, j) /\ \A l \in (k + 1)..(j - 1) : ~HasPart(m, l)
    ELSE 0

\* resample_audio (lines 184-191), on the number of samples.
Resample(n, orig_sr, target_sr) ==
  IF orig_sr = target_sr THEN n ELSE (n * target_sr) \div orig_sr

\* The size of the audio a provider message carries.
Payload(m) == IF "data" \in DOMAIN m THEN m.data ELSE 0

\* send_end_of_turn, send_activity_start, send_activity_end (lines 603, 619,
\* 653): the test under which the signal is sent to the provider.
ChannelLive == gemini_session # None /\ streaming_ready /\ ~is_closing

\* ---------------------------------------------------------------- Init
\* openai_server.py lines 154-168: no response yet, nothing cancelled; the
\* listener starts with an empty audio_buffer (line 444).
InitTurn ==
  /\ is_speaking = FALSE
  /\ is_responding = FALSE
  /\ current_response_id = None
  /\ source_text = 0
  /\ translated_text = <<>>
  /\ deltas_received = <<>>
  /\ translation_msgs = <<>>
  /\ stream_audio = FALSE
  /\ listener_audio_buffer = 0
  /\ openai_out = <<>>
  /\ cancelled = FALSE
  /\ resample_args = <<0, ClientRate, ClientRate>>
  /\ resampled_len = 0
  /\ audio_received_since_commit = FALSE
  /\ periodic_pc = "sleep"
  /\ response_requested = FALSE
  /\ uncommitted = FALSE

\* The fields of a new ClientSession, and the tasks and positions of a
\* connection on which nothing has run yet.
InitFields ==
  /\ source_lang = DefaultPair[1]
  /\ target_lang = DefaultPair[2]
  /\ streaming_enabled = FALSE
  /\ streaming_ready = FALSE
  /\ gemini_session = None
  /\ session_task = None
  /\ has_queue = FALSE
  /\ audio_queue = <<>>
  /\ is_closing = FALSE
  /\ in_model_turn = FALSE
  /\ turn_active = FALSE
  /\ waiting_for_turn_complete = FALSE
  /\ tasks = [i \in TaskIds |-> NoTask]
  /\ hctx = "none"
  /\ cpc = [c \in Callers |-> "idle"]
  /\ cwait = [c \in Callers |-> None]
  /\ nextChunk = 1
  /\ forwarded = <<>>
  /\ dropped = {}
  /\ active = TRUE
  /\ openai_ws = None
  /\ openai_listener_task = None
  /\ periodic_task = None
  /\ listener = NoJob
  /\ periodic = NoJob
  /\ periodic_alive = 0
  /\ ws_close_calls = 0
  /\ heard = <<>>
  /\ relayed = <<>>
  /\ audio_buffer = 0
  /\ requests = <<>>
  /\ InitTurn

\* The registered session of a connection that has just been accepted and
\* welcomed.
InitSession ==
  /\ InitFields
  /\ sessions = {"s1"}
  /\ client_out = <<"connected">>

\* gemini_server.py lines 946-965 and openai_server.py lines 712-738: the
\* Gemini handler is in its receive loop, the OpenAI handler is about to
\* connect to the provider.
Init ==
  /\ server \in {"gemini", "openai"}
  /\ limits \in (IF server = "gemini" THEN Limits
                                      ELSE {[tasks |-> 1, chunks |-> 0,
                                             events |-> 0]})
  /\ InitSession
  /\ client_api_key = ""
  /\ hpc = (IF server = "gemini" THEN "recv" ELSE "connect")
  /\ translation_mode \in (IF server = "gemini" THEN {"vad"}
                                                 ELSE TranslationModes)

\* ------------------------------------------- create_streaming_session
\* Lines 399-406: new queue, flags, and the session task, which reads the
\* languages when it first runs (during the first sleep of the caller).
CreateSync ==
  /\ has_queue' = TRUE
  /\ audio_queue' = <<>>
  /\ streaming_ready' = FALSE
  /\ in_model_turn' = FALSE
  /\ session_task' = NewTaskId
  /\ tasks' = [tasks EXCEPT ![NewTaskId] =
                 [st |-> "connecting", cancel |-> 0, send |-> "done",
                  recv |-> "done",
                  langs |-> <<source_lang, target_lang>>]]

\* Lines 408-418: the readiness poll.  A poll that finds the session not
\* ready either sleeps again (no change) or is the twentieth one.
HCreatePoll ==
  /\ server = "gemini"
  /\ hpc = "create"
  /\ hpc' = "recv"
  /\ IF streaming_ready
       THEN /\ client_out' = IF hctx = "configure"
                                THEN <<"streaming_session_ready">>
                                ELSE <<"streaming_enabled">>
            /\ UNCHANGED streaming_enabled
       ELSE IF hctx = "configure"
              THEN /\ client_out' = <<>>
                   /\ UNCHANGED streaming_enabled
              ELSE /\ streaming_enabled' = FALSE
                   /\ client_out' = <<"error">>
  /\ UNCHANGED <<server, limits, yvars, xvars, ovars, source_lang, target_lang, streaming_ready,
                 gemini_session, session_task, has_queue, audio_queue,
                 is_closing, in_model_turn, turn_active,
                 waiting_for_turn_complete, sessions, tasks, hctx, cpc,
                 cwait, nextChunk, forwarded, dropped>>

\* -------------------------------------------- close_streaming_session
\* Lines 840-855: flags, poison pill, cancel, up to the await of the task.
\* Awaiting a task that has already finished does not suspend, so the call
\* then runs to its end (lines 858-861) in the same step.
CloseBegin(c) ==
  /\ is_closing' = TRUE
  /\ streaming_ready' = FALSE
  /\ in_model_turn' = FALSE
  /\ IF session_task # None /\ tasks[session_task].st # "none"
       THEN /\ audio_queue' = IF has_queue
                                THEN Append(audio_queue, Sentinel)
                                ELSE audio_queue
            /\ tasks' = [tasks EXCEPT ![session_task].cancel =
                           IF @ = MaxCancel THEN @ ELSE @ + 1]
            /\ cpc' = [cpc EXCEPT ![c] = "await"]
            /\ cwait' = [cwait EXCEPT ![c] = session_task]
            /\ UNCHANGED <<session_task, has_queue>>
       ELSE /\ audio_queue' = <<>>
            /\ has_queue' = FALSE
            /\ session_task' = None
            /\ cpc' = [cpc EXCEPT ![c] = "returned"]
            /\ UNCHANGED <<tasks, cwait>>

\* Lines 855-861: the awaited task has finished.
CloseJoin(c) ==
  /\ server = "gemini"
  /\ cpc[c] = "await"
  /\ tasks[cwait[c]].st = "none"
  /\ session_task' = None
  /\ has_queue' = FALSE
  /\ audio_queue' = <<>>
  /\ cpc' = [cpc EXCEPT ![c] = "returned"]
  /\ cwait' = [cwait EXCEPT ![c] = None]
  /\ UNCHANGED <<server, limits, yvars, xvars, ovars, source_lang, target_lang, streaming_enabled,
                 streaming_ready, gemini_session, is_closing, in_model_turn,
                 turn_active, waiting_for_turn_complete, sessions, tasks,
                 hpc, hctx, nextChunk, forwarded, dropped>>
  /\ client_out' = <<>>

\* --------------------------------------------- websocket_translate
\* A binary frame in streaming mode: send_audio_chunk.
HAudio ==
  /\ server = "gemini"
  /\ hpc = "recv"
  /\ nextChunk <= limits.chunks
  /\ StreamingMode
  /\ nextChunk' = nextChunk + 1
  /\ audio_queue' =
       IF Admit
         THEN Append(audio_queue,
                     Chunk(nextChunk, turn_active,
                           waiting_for_turn_complete))
         ELSE audio_queue
  /\ UNCHANGED <<server, limits, yvars, xvars, ovars, source_lang, target_lang, streaming_enabled,
                 streaming_ready, gemini_session, session_task, has_queue,
                 is_closing, in_model_turn, turn_active,
                 waiting_for_turn_complete, sessions, tasks, hpc, hctx, cpc,
                 cwait, forwarded, dropped>>
  /\ client_out' = <<>>

\* configure / config with a valid pair.
HConfigure(p) ==
  /\ server = "gemini"
  /\ hpc = "recv"
  /\ source_lang' = p[1]
  /\ target_lang' = p[2]
  /\ client_out' = <<"configured">>
  /\ IF streaming_enabled /\ streaming_ready
       THEN /\ CloseBegin("h")
            /\ hpc' = "close"
            /\ hctx' = "configure"
       ELSE UNCHANGED <<is_closing, streaming_ready, in_model_turn,
                        audio_queue, tasks, cpc, cwait, session_task,
                        has_queue, hpc, hctx>>
  /\ UNCHANGED <<server, limits, yvars, xvars, ovars, streaming_enabled, gemini_session, turn_active,
                 waiting_for_turn_complete, sessions, nextChunk, forwarded, dropped>>

\* Lines 1070-1071: after the close, clear is_closing and create again.
HConfigureReopen ==
  /\ server = "gemini"
  /\ hpc = "close" /\ hctx = "configure" /\ cpc["h"] = "returned"
  /\ is_closing' = FALSE
  /\ CreateSync
  /\ hpc' = "create"
  /\ cpc' = [cpc EXCEPT !["h"] = "idle"]
  /\ UNCHANGED <<server, limits, yvars, xvars, ovars, source_lang, target_lang, streaming_enabled,
                 gemini_session, turn_active, waiting_for_turn_complete,
                 sessions, hctx, cwait, nextChunk, forwarded, dropped>>
  /\ client_out' = <<>>

\* set_streaming {enabled: true} while streaming is off.
HSetStreamingOn ==
  /\ server = "gemini"
  /\ hpc = "recv"
  /\ ~streaming_enabled
  /\ Cardinality(LiveTasks) < limits.tasks
  /\ streaming_enabled' = TRUE
  /\ CreateSync
  /\ hpc' = "create"
  /\ hctx' = "set_streaming"
  /\ UNCHANGED <<server, limits, yvars, xvars, ovars, source_lang, target_lang, gemini_session,
                 is_closing, turn_active, waiting_for_turn_complete,
                 sessions, cpc, cwait, nextChunk, forwarded, dropped>>
  /\ client_out' = <<>>

\* set_streaming {enabled: false} while streaming is on.
HSetStreamingOff ==
  /\ server = "gemini"
  /\ hpc = "recv"
  /\ streaming_enabled
  /\ CloseBegin("h")
  /\ hpc' = "close"
  /\ hctx' = "set_streaming"
  /\ UNCHANGED <<server, limits, yvars, xvars, ovars, source_lang, target_lang, streaming_enabled,
                 gemini_session, turn_active, waiting_for_turn_complete,
                 sessions, nextChunk, forwarded, dropped>>
  /\ client_out' = <<>>

\* Lines 1105-1112.
HSetStreamingClosed ==
  /\ server = "gemini"
  /\ hpc = "close" /\ hctx = "set_streaming" /\ cpc["h"] = "returned"
  /\ streaming_enabled' = FALSE
  /\ is_closing' = FALSE
  /\ client_out' = <<"streaming_enabled">>
  /\ hpc' = "recv"
  /\ cpc' = [cpc EXCEPT !["h"] = "idle"]
  /\ UNCHANGED <<server, limits, yvars, xvars, ovars, source_lang, target_lang, streaming_ready,
                 gemini_session, session_task, has_queue, audio_queue,
                 in_model_turn, turn_active, waiting_for_turn_complete,
                 sessions, tasks, hctx, cwait, nextChunk, forwarded, dropped>>

\* activity_start: lines 1221-1231 and send_activity_start (619-640); the
\* provider send returns (ok) or raises.
HActivityStart(ok) ==
  /\ server = "gemini"
  /\ hpc = "recv"
  /\ IF streaming_enabled /\ streaming_ready
       THEN /\ turn_active' =
                 IF gemini_session # None /\ streaming_ready /\ ~is_closing
                   THEN ok ELSE turn_active
            /\ client_out' = <<"activity_start_sent">>
       ELSE /\ client_out' = <<"error">>
            /\ UNCHANGED turn_active
  /\ UNCHANGED <<server, limits, yvars, xvars, ovars, source_lang, target_lang, streaming_enabled,
                 streaming_ready, gemini_session, session_task, has_queue,
                 audio_queue, is_closing, in_model_turn,
                 waiting_for_turn_complete, sessions, tasks, hpc, hctx, cpc,
                 cwait, nextChunk, forwarded, dropped>>

\* activity_end: lines 1235-1245 and send_activity_end (653-678).
HActivityEnd(ok) ==
  /\ server = "gemini"
  /\ hpc = "recv"
  /\ IF streaming_enabled /\ streaming_ready
       THEN /\ IF gemini_session # None /\ streaming_ready /\ ~is_closing
                 THEN /\ turn_active' = FALSE
                      /\ waiting_for_turn_complete' = ok
                 ELSE UNCHANGED <<turn_active, waiting_for_turn_complete>>
            /\ client_out' = <<"activity_end_sent">>
       ELSE /\ client_out' = <<"error">>
            /\ UNCHANGED <<turn_active, waiting_for_turn_complete>>
  /\ UNCHANGED <<server, limits, yvars, xvars, ovars, source_lang, target_lang, streaming_enabled,
                 streaming_ready, gemini_session, session_task, has_queue,
                 audio_queue, is_closing, in_model_turn, sessions, tasks,
                 hpc, hctx, cpc, cwait, nextChunk, forwarded, dropped>>

\* end_of_turn: lines 1206-1216 and send_end_of_turn (603-608); the provider
\* send returns (ok) or raises, and no field of the session is written.
HEndOfTurn(ok) ==
  /\ server = "gemini"
  /\ hpc = "recv"
  /\ client_out' = IF streaming_enabled /\ streaming_ready
                     THEN <<"end_of_turn_sent">>
                     ELSE <<"error">>
  /\ UNCHANGED <<server, limits, yvars, xvars, ovars, source_lang, target_lang,
                 streaming_enabled, streaming_ready, gemini_session,
                 session_task, has_queue, audio_queue, is_closing,
                 in_model_turn, turn_active, waiting_for_turn_complete,
                 sessions, tasks, hpc, hctx, cpc, cwait, nextChunk,
                 forwarded, dropped>>

\* A binary frame in buffer mode: line 985.
HBuffer(f) ==
  /\ server = "gemini"
  /\ hpc = "recv"
  /\ ~StreamingMode
  /\ audio_buffer + f <= MaxFrames * FrameBytes
  /\ audio_buffer' = audio_buffer + f
  /\ client_out' = <<>>
  /\ UNCHANGED <<server, limits, yvars, ovars, heard, relayed, requests,
                 source_lang, target_lang, streaming_enabled,
                 streaming_ready, gemini_session, session_task, has_queue,
                 audio_queue, is_closing, in_model_turn, turn_active,
                 waiting_for_turn_complete, sessions, tasks, hpc, hctx, cpc,
                 cwait, nextChunk, forwarded, dropped>>

\* translate: lines 1122-1136.  A buffer below the minimum is rejected and
\* cleared; otherwise the handler awaits process_audio on a copy of it.
HTranslate ==
  /\ server = "gemini"
  /\ hpc = "recv"
  /\ IF audio_buffer < MinAudioBytes
       THEN /\ client_out' = <<"AUDIO_TOO_SHORT">>
            /\ audio_buffer' = 0
            /\ UNCHANGED <<requests, hpc>>
       ELSE /\ Len(requests) < MaxRequests
            /\ requests' = Append(requests, audio_buffer)
            /\ hpc' = "translate"
            /\ client_out' = <<>>
            /\ UNCHANGED audio_buffer
  /\ UNCHANGED <<server, limits, yvars, ovars, heard, relayed, source_lang,
                 target_lang, streaming_enabled, streaming_ready,
                 gemini_session, session_task, has_queue, audio_queue,
                 is_closing, in_model_turn, turn_active,
                 waiting_for_turn_complete, sessions, tasks, hctx, cpc,
                 cwait, nextChunk, forwarded, dropped>>

\* Lines 1137 and 1169: audio_buffer.clear() once process_audio has returned
\* (ok) or raised (a mutant keeps the buffer when it raised).
BufferKeptOnError(ok) == IF ok THEN 0 ELSE audio_buffer

BufferAfterTranslate(ok) == 0

\* Lines 1137-1174: process_audio returns (ok), with or without audio, or
\* raises.
HTranslateDone(ok, audio) ==
  /\ server = "gemini"
  /\ hpc = "translate"
  /\ hpc' = "recv"
  /\ audio_buffer' = BufferAfterTranslate(ok)
  /\ client_out' =
       IF ~ok THEN <<"TRANSLATION_ERROR">>
       ELSE IF source_lang # "auto" /\ source_lang = target_lang
         THEN <<"skipped">>
         ELSE IF audio THEN <<"translation", "audio">>
                       ELSE <<"translation">>
  /\ UNCHANGED <<server, limits, yvars, ovars, heard, relayed, requests,
                 source_lang, target_lang, streaming_enabled,
                 streaming_ready, gemini_session, session_task, has_queue,
                 audio_queue, is_closing, in_model_turn, turn_active,
                 waiting_for_turn_complete, sessions, tasks, hctx, cpc,
                 cwait, nextChunk, forwarded, dropped>>

\* A malformed text frame: invalid JSON is answered at lines 992-998, an
\* unknown or missing type at lines 1260-1266; on JSON that is not an object
\* data.get raises, which ends the receive loop of the handler (lines
\* 1002-1015).
HMalformed(k) ==
  /\ server = "gemini"
  /\ hpc = "recv"
  /\ IF k = "not_object"
       THEN /\ client_out' = <<"SERVER_ERROR">>
            /\ IF streaming_enabled
                 THEN /\ CloseBegin("h")
                      /\ hpc' = "close"
                      /\ hctx' = "finally"
                      /\ UNCHANGED sessions
                 ELSE /\ sessions' = sessions \ {"s1"}
                      /\ hpc' = "done"
                      /\ UNCHANGED <<is_closing, streaming_ready,
                                     in_model_turn, audio_queue, tasks, cpc,
                                     cwait, session_task, has_queue, hctx>>
       ELSE /\ client_out' = IF k = "invalid_json"
                               THEN <<"INVALID_JSON">>
                               ELSE <<"UNKNOWN_MESSAGE">>
            /\ UNCHANGED <<is_closing, streaming_ready, in_model_turn,
                           audio_queue, tasks, cpc, cwait, session_task,
                           has_queue, hctx, sessions, hpc>>
  /\ UNCHANGED <<server, limits, yvars, xvars, ovars, source_lang, target_lang,
                 streaming_enabled, gemini_session, turn_active,
                 waiting_for_turn_complete, nextChunk, forwarded, dropped>>

\* The client disconnects (or receive raises): lines 1000-1020.
HDisconnect ==
  /\ server = "gemini"
  /\ hpc = "recv"
  /\ IF streaming_enabled
       THEN /\ CloseBegin("h")
            /\ hpc' = "close"
            /\ hctx' = "finally"
            /\ UNCHANGED sessions
       ELSE /\ sessions' = sessions \ {"s1"}
            /\ hpc' = "done"
            /\ UNCHANGED <<is_closing, streaming_ready, in_model_turn,
                           audio_queue, tasks, cpc, cwait, session_task,
                           has_queue, hctx>>
  /\ UNCHANGED <<server, limits, yvars, xvars, ovars, source_lang, target_lang, streaming_enabled,
                 gemini_session, turn_active, waiting_for_turn_complete,
                 nextChunk, forwarded, dropped>>
  /\ client_out' = <<>>

\* Lines 1017-1020, after the close of the finally block has returned (a
\* mutant clears is_closing here as the other two callers of close do).
HCleanupClearing ==
  /\ server = "gemini"
  /\ hpc = "close" /\ hctx = "finally" /\ cpc["h"] = "returned"
  /\ sessions' = sessions \ {"s1"}
  /\ hpc' = "done"
  /\ cpc' = [cpc EXCEPT !["h"] = "idle"]
  /\ is_closing' = FALSE
  /\ client_out' = <<>>
  /\ UNCHANGED <<server, limits, yvars, xvars, ovars, source_lang, target_lang,
                 streaming_enabled, streaming_ready, gemini_session,
                 session_task, has_queue, audio_queue, in_model_turn,
                 turn_active, waiting_for_turn_complete, tasks, hctx, cwait,
                 nextChunk, forwarded, dropped>>

HCleanup ==
  /\ server = "gemini"
  /\ hpc = "close" /\ hctx = "finally" /\ cpc["h"] = "returned"
  /\ sessions' = sessions \ {"s1"}
  /\ hpc' = "done"
  /\ cpc' = [cpc EXCEPT !["h"] = "idle"]
  /\ client_out' = <<>>
  /\ UNCHANGED <<server, limits, yvars, xvars, ovars, source_lang, target_lang,
                 streaming_enabled, streaming_ready, gemini_session,
                 session_task, has_queue, audio_queue, is_closing,
                 in_model_turn, turn_active, waiting_for_turn_complete,
                 tasks, hctx, cwait, nextChunk, forwarded, dropped>>

\* ------------------------------------------- _run_streaming_session
SessionFrame ==
  UNCHANGED <<server, limits, yvars, xvars, ovars, source_lang, target_lang, streaming_enabled,
              session_task, sessions, hpc, hctx, cpc, cwait, nextChunk>>

\* Lines 479-490: the provider connection is established.
TaskConnectOK(i) ==
  /\ server = "gemini"
  /\ tasks[i].st = "connecting" /\ tasks[i].cancel = 0
  /\ gemini_session' = i
  /\ streaming_ready' = TRUE
  /\ tasks' = [tasks EXCEPT ![i].st = "running", ![i].send = "top",
                            ![i].recv = "top"]
  /\ SessionFrame
  /\ UNCHANGED <<has_queue, audio_queue, is_closing, in_model_turn,
                 turn_active, waiting_for_turn_complete, forwarded, dropped>>
  /\ client_out' = <<>>

\* Lines 494-499: connect raises.
TaskConnectFail(i) ==
  /\ server = "gemini"
  /\ tasks[i].st = "connecting" /\ tasks[i].cancel = 0
  /\ gemini_session' = None
  /\ tasks' = [tasks EXCEPT ![i] = NoTask]
  /\ SessionFrame
  /\ UNCHANGED <<streaming_ready, has_queue, audio_queue, is_closing,
                 in_model_turn, turn_active, waiting_for_turn_complete,
                 forwarded, dropped>>
  /\ client_out' = <<>>

\* Lines 492-499: the cancellation requested by close reaches the task; the
\* task group cancels both loops, which end at their current await.
TaskCancelled(i) ==
  /\ server = "gemini"
  /\ tasks[i].st \in {"connecting", "running"} /\ tasks[i].cancel > 0
  /\ gemini_session' = None
  /\ tasks' = [tasks EXCEPT ![i] = NoTask]
  /\ SessionFrame
  /\ UNCHANGED <<streaming_ready, has_queue, audio_queue, is_closing,
                 in_model_turn, turn_active, waiting_for_turn_complete,
                 forwarded, dropped>>
  /\ client_out' = <<>>

\* Lines 488-499: both loops have returned, the task group and the
\* connection context exit.
TaskExit(i) ==
  /\ server = "gemini"
  /\ tasks[i].st = "running"
  /\ tasks[i].send = "done" /\ tasks[i].recv = "done"
  /\ gemini_session' = None
  /\ tasks' = [tasks EXCEPT ![i] = NoTask]
  /\ SessionFrame
  /\ UNCHANGED <<streaming_ready, has_queue, audio_queue, is_closing,
                 in_model_turn, turn_active, waiting_for_turn_complete,
                 forwarded, dropped>>
  /\ client_out' = <<>>

\* ------------------------------------------------------- _send_loop
LoopFrame ==
  UNCHANGED <<server, limits, yvars, xvars, ovars, source_lang, target_lang, streaming_enabled,
              streaming_ready, gemini_session, session_task, has_queue,
              is_closing, sessions, hpc, hctx, cpc, cwait, nextChunk>>

\* Lines 525 and 568: where the loop stands after an iteration.
AfterIteration == IF is_closing THEN "done" ELSE "get"

\* Lines 513-525: the loop starts and evaluates its condition.
SendStart(i) ==
  /\ server = "gemini"
  /\ tasks[i].st = "running" /\ tasks[i].send = "top"
  /\ tasks' = [tasks EXCEPT ![i].send = AfterIteration]
  /\ client_out' = <<>>
  /\ LoopFrame
  /\ UNCHANGED <<audio_queue, in_model_turn, turn_active,
                 waiting_for_turn_complete, forwarded, dropped>>

\* Lines 527-575: the wait for an item ends: poison pill, drop, forward, or
\* a timeout that finds the session closing (any other timeout changes
\* nothing).  The provider send returns (ok) or raises, which ends the loop.
SendGet(i, ok) ==
  /\ server = "gemini"
  /\ tasks[i].st = "running" /\ tasks[i].send = "get"
  /\ IF ~has_queue
       THEN \* session.audio_queue is None: the loop ends on the error
            /\ tasks' = [tasks EXCEPT ![i].send = "done"]
            /\ UNCHANGED <<audio_queue, forwarded, dropped>>
       ELSE IF audio_queue = <<>>
         THEN /\ is_closing
              /\ tasks' = [tasks EXCEPT ![i].send = "done"]
              /\ UNCHANGED <<audio_queue, forwarded, dropped>>
         ELSE LET d == Dequeue(audio_queue) IN
              /\ audio_queue' = d.rest
              /\ IF d.item = Sentinel
                   THEN /\ tasks' = [tasks EXCEPT ![i].send = "done"]
                        /\ UNCHANGED <<forwarded, dropped>>
                   ELSE IF MayForward
                     THEN /\ forwarded' = Append(forwarded, d.item)
                          /\ tasks' = [tasks EXCEPT
                                         ![i].send = IF ok THEN AfterIteration
                                                     ELSE "done"]
                          /\ UNCHANGED dropped
                     ELSE /\ dropped' = dropped \cup {d.item}
                          /\ tasks' = [tasks EXCEPT
                                         ![i].send = AfterIteration]
                          /\ UNCHANGED forwarded
  /\ client_out' = <<>>
  /\ LoopFrame
  /\ UNCHANGED <<in_model_turn, turn_active, waiting_for_turn_complete>>

\* ---------------------------------------------------- _receive_loop
\* Line 691: the loop condition, at the start and after the delay that
\* follows a transient error; then receive() is called.
RecvStart(i) ==
  /\ server = "gemini"
  /\ tasks[i].st = "running" /\ tasks[i].recv = "top"
  /\ tasks' = [tasks EXCEPT ![i].recv = IF is_closing THEN "done" ELSE "iter"]
  /\ client_out' = <<>>
  /\ LoopFrame
  /\ UNCHANGED <<audio_queue, in_model_turn, turn_active,
                 waiting_for_turn_complete, forwarded, dropped>>

\* The parts of message m that are handled: all of them, or, when the send
\* to the client raises, those up to the first send (line 813 skips the
\* rest).  A model_turn or turn_complete part changes state before its send.
Handled(m, j) ==
  /\ HasPart(m, j)
  /\ ClientGone => /\ j = NextStage(m, 0)
                   /\ j \in {2, 4}

\* What the handling of message m sends to the client, in order (a mutant
\* sends turn_complete ahead of the other parts).
ClientMessagesTurnFirst(m) ==
  (IF m.tc THEN <<"turn_complete">> ELSE <<>>)
  \o (IF m.inTr THEN <<"source_text">> ELSE <<>>)
  \o (IF m.mt /\ ~in_model_turn THEN <<"model_turn_started">> ELSE <<>>)
  \o (IF m.mt THEN <<"audio">> ELSE <<>>)
  \o (IF m.outTr THEN <<"translated_text">> ELSE <<>>)

ClientMessages(m) ==
  (IF m.inTr THEN <<"source_text">> ELSE <<>>)
  \o (IF m.mt /\ ~in_model_turn THEN <<"model_turn_started">> ELSE <<>>)
  \o (IF m.mt THEN <<"audio">> ELSE <<>>)
  \o (IF m.outTr THEN <<"translated_text">> ELSE <<>>)
  \o (IF m.tc THEN <<"turn_complete">> ELSE <<>>)

\* Lines 701-811: one provider message is handled, part by part.
HandleMessage(m) ==
  /\ in_model_turn' = IF Handled(m, 4) THEN FALSE
                      ELSE IF Handled(m, 2) THEN TRUE ELSE in_model_turn
  /\ waiting_for_turn_complete' =
       IF Handled(m, 4) THEN FALSE ELSE waiting_for_turn_complete
  /\ turn_active' = IF Handled(m, 4) THEN FALSE ELSE turn_active
  /\ client_out' = IF ClientGone THEN <<>> ELSE ClientMessages(m)

\* The frames the handling of message m sends to the client: the messages
\* of ClientMessages, the audio with its size after resampling (line 759).
ClientFrames(m) ==
  [j \in DOMAIN ClientMessages(m) |->
     [type |-> ClientMessages(m)[j],
      samples |-> IF ClientMessages(m)[j] = "audio"
                    THEN Resample(Payload(m), GeminiRate, ClientRate)
                    ELSE 0]]

\* The first limits.events messages the loop handles are recorded, with the
\* frames sent for them.
Record(m) ==
  IF Len(heard) < limits.events
    THEN /\ heard' = Append(heard, m)
         /\ relayed' = relayed \o (IF ClientGone THEN <<>>
                                                 ELSE ClientFrames(m))
    ELSE UNCHANGED <<heard, relayed>>

\* Lines 811 and 691: where the loop stands after it has handled message m.
\* A turn_complete breaks out of the iteration, the loop condition is
\* evaluated and receive() is called again (a mutant ends the loop).
AfterMessageEnding(m) == IF Handled(m, 4) THEN "done" ELSE "iter"

AfterMessage(m) == IF Handled(m, 4) /\ is_closing THEN "done" ELSE "iter"

\* Lines 693-700 and 811: the provider delivers a message.
RecvDeliver(i, m) ==
  /\ server = "gemini"
  /\ tasks[i].st = "running" /\ tasks[i].recv = "iter"
  /\ IF is_closing
       THEN /\ tasks' = [tasks EXCEPT ![i].recv = "done"]
            /\ client_out' = <<>>
            /\ UNCHANGED <<in_model_turn, turn_active,
                           waiting_for_turn_complete, heard, relayed>>
       ELSE /\ HandleMessage(m)
            /\ tasks' = [tasks EXCEPT ![i].recv = AfterMessage(m)]
            /\ Record(m)
  /\ UNCHANGED <<server, limits, yvars, ovars, source_lang, target_lang,
                 streaming_enabled, streaming_ready, gemini_session,
                 session_task, has_queue, is_closing, sessions, hpc, hctx,
                 cpc, cwait, nextChunk, audio_buffer, requests>>
  /\ UNCHANGED <<audio_queue, forwarded, dropped>>

\* Lines 816-827: receive() raises; a close or service error ends the
\* loop, any other error is retried after a delay.
RecvError(i, terminal) ==
  /\ server = "gemini"
  /\ tasks[i].st = "running" /\ tasks[i].recv = "iter"
  /\ tasks' = [tasks EXCEPT ![i].recv = IF terminal THEN "done" ELSE "top"]
  /\ client_out' = <<>>
  /\ LoopFrame
  /\ UNCHANGED <<audio_queue, in_model_turn, turn_active,
                 waiting_for_turn_complete, forwarded, dropped>>

\* ------------------------------------------- openai_server.py: tasks
OFrame == UNCHANGED <<server, limits, yvars, xvars, gonly, sessions, hctx, cwait, translation_mode>>

\* Lines 447 and 625-627: the listener leaves its loop, because the provider
\* closed the connection or because the loop condition no longer holds.
OListenerStop(closed) ==
  /\ server = "openai"
  /\ listener.st = "running"
  /\ closed \/ ~active \/ openai_ws = None
  /\ listener' = [listener EXCEPT !.st = "done"]
  /\ client_out' = <<>>
  /\ OFrame
  /\ UNCHANGED <<active, openai_ws, openai_listener_task, periodic_task,
                 periodic, periodic_alive, ws_close_calls, hpc, cpc>>

\* Lines 632-633: the cancellation reaches the listener.
OListenerCancelled ==
  /\ server = "openai"
  /\ listener.st = "running" /\ listener.cancel > 0
  /\ listener' = [listener EXCEPT !.st = "done"]
  /\ client_out' = <<>>
  /\ OFrame
  /\ UNCHANGED <<active, openai_ws, openai_listener_task, periodic_task,
                 periodic, periodic_alive, ws_close_calls, hpc, cpc>>

\* Line 324: the periodic task finds its loop condition false.
OPeriodicStop ==
  /\ server = "openai"
  /\ periodic.st = "running"
  /\ periodic_pc = "sleep"
  /\ ~active \/ translation_mode # "periodic"
  /\ periodic' = [periodic EXCEPT !.st = "done"]
  /\ periodic_alive' = periodic_alive - 1
  /\ client_out' = <<>>
  /\ OFrame
  /\ UNCHANGED <<active, openai_ws, openai_listener_task, periodic_task,
                 listener, ws_close_calls, hpc, cpc>>

\* Lines 359-360: the cancellation reaches the periodic task.
OPeriodicCancelled ==
  /\ server = "openai"
  /\ periodic.st = "running" /\ periodic.cancel > 0
  /\ periodic' = [periodic EXCEPT !.st = "done"]
  /\ periodic_alive' = periodic_alive - 1
  /\ client_out' = <<>>
  /\ OFrame
  /\ UNCHANGED <<active, openai_ws, openai_listener_task, periodic_task,
                 listener, ws_close_calls, hpc, cpc>>

\* ------------------------------------------------ close_openai_session
\* The three places where close_openai_session can suspend: the await of
\* the periodic task (384), of the listener (398), of openai_ws.close (404).
Suspends(s) ==
  CASE s = 1 -> periodic_task # None /\ periodic.st = "running"
    [] s = 2 -> openai_listener_task # None /\ listener.st = "running"
    [] s = 3 -> openai_ws # None
    [] OTHER -> TRUE

\* The first place at or after s where the call suspends; 4 is the return.
StopAt(s) == CHOOSE t \in s..4 : Suspends(t) /\ \A u \in s..(t - 1) : ~Suspends(u)

StageName(t) ==
  CASE t = 1 -> "await_periodic"
    [] t = 2 -> "await_listener"
    [] t = 3 -> "await_ws"
    [] OTHER -> "returned"

Cancel(job) == [job EXCEPT !.cancel = IF @ = MaxCancel THEN @ ELSE @ + 1]

\* The call runs from place s to the next place where it suspends; pt and
\* ws are periodic_task and openai_ws as the step before s left them.
CloseRun(c, s, pt, ws) ==
  LET t == StopAt(s) IN
  /\ periodic' = IF t = 1 THEN Cancel(periodic) ELSE periodic
  /\ UNCHANGED periodic_alive
  /\ periodic_task' = IF s = 1 /\ t > 1 THEN None ELSE pt
  /\ listener' = IF t = 2 THEN Cancel(listener) ELSE listener
  /\ ws_close_calls' = IF t = 3 THEN ws_close_calls + 1 ELSE ws_close_calls
  /\ openai_ws' = ws
  /\ cpc' = [cpc EXCEPT ![c] = StageName(t)]

\* Lines 390-398.
OCloseBegin(c) ==
  /\ active' = FALSE
  /\ CloseRun(c, 1, periodic_task, openai_ws)

\* Lines 384-386, 398-407: the awaited task has finished, or the provider
\* websocket has been closed, and the call goes on.
OCloseResume(c) ==
  /\ server = "openai"
  /\ \/ /\ cpc[c] = "await_periodic" /\ periodic.st # "running"
        /\ CloseRun(c, 2, None, openai_ws)
     \/ /\ cpc[c] = "await_listener" /\ listener.st # "running"
        /\ CloseRun(c, 3, periodic_task, openai_ws)
     \/ /\ cpc[c] = "await_ws"
        /\ CloseRun(c, 4, periodic_task, None)
  /\ client_out' = <<>>
  /\ OFrame
  /\ UNCHANGED <<active, openai_listener_task, hpc>>

\* ---------------------------------- openai_server.py: websocket_translate
\* Lines 740-760: connect_to_openai, configure, start the listener and, in
\* periodic mode, the periodic task; on failure the error and the finally.
OConnect(ok) ==
  /\ server = "openai"
  /\ hpc = "connect"
  /\ IF ok
       THEN /\ openai_ws' = 1
            /\ openai_listener_task' = 1
            /\ listener' = [st |-> "running", cancel |-> 0]
            /\ IF translation_mode = "periodic"
                 THEN /\ periodic_task' = 1
                      /\ periodic' = [st |-> "running", cancel |-> 0]
                      /\ periodic_alive' = periodic_alive + 1
                 ELSE UNCHANGED <<periodic_task, periodic, periodic_alive>>
            /\ hpc' = "recv"
            /\ client_out' = <<>>
            /\ UNCHANGED <<active, ws_close_calls, cpc>>
       ELSE /\ OCloseBegin("h")
            /\ hpc' = "close"
            /\ client_out' = <<"error">>
            /\ UNCHANGED openai_listener_task
  /\ UNCHANGED <<server, limits, yvars, xvars, gonly, sessions, hctx, cwait, translation_mode>>

\* Lines 786-799: the client disconnects or the handler fails.
ODisconnect ==
  /\ server = "openai"
  /\ hpc = "recv"
  /\ OCloseBegin("h")
  /\ hpc' = "close"
  /\ client_out' = <<>>
  /\ OFrame
  /\ UNCHANGED openai_listener_task

\* A malformed text frame: invalid JSON is logged (lines 783-784) and a
\* message without a known type matches no branch of handle_json_message;
\* on JSON that is not an object data.get raises, which ends the receive
\* loop of the handler (lines 788-799).
OMalformed(k) ==
  /\ server = "openai"
  /\ hpc = "recv"
  /\ IF k = "not_object"
       THEN /\ client_out' = <<"SERVER_ERROR">>
            /\ OCloseBegin("h")
            /\ hpc' = "close"
       ELSE /\ client_out' = <<>>
            /\ UNCHANGED <<active, periodic, periodic_alive, periodic_task, listener,
                           ws_close_calls, openai_ws, cpc, hpc>>
  /\ OFrame
  /\ UNCHANGED openai_listener_task

\* Lines 800-802, after close_openai_session has returned.
OCleanup ==
  /\ server = "openai"
  /\ hpc = "close" /\ cpc["h"] = "returned"
  /\ sessions' = sessions \ {"s1"}
  /\ hpc' = "done"
  /\ cpc' = [cpc EXCEPT !["h"] = "idle"]
  /\ client_out' = <<>>
  /\ UNCHANGED <<server, limits, yvars, xvars, gonly, ovars, hctx, cwait>>

\* ------------------------------------------------ configure, validated
\* The language codes a client asks for: the automatic source, a supported
\* code, a BCP-47 form of a supported language, and a language that is not
\* supported.
RequestCodes == {"auto", "de", "es-ES", "pt-BR"}

\* str.lower() on the codes of RequestCodes.
Lower(code) ==
  CASE code = "es-ES" -> "es-es"
    [] code = "pt-BR" -> "pt-br"
    [] OTHER -> code

\* code.split('-')[0].split('_')[0].lower() on the codes of RequestCodes.
PrimarySubtag(code) ==
  CASE code = "es-ES" -> "es"
    [] code = "pt-BR" -> "pt"
    [] OTHER -> code

\* The rows of the table for the two-letter codes and for two regional
\* forms.
GEMINI_LANG_CODES ==
  [c \in SUPPORTED_LANGUAGES \cup {"de-de", "es-es"} |->
     CASE c = "de-de" -> "de"
       [] c = "es-es" -> "es"
       [] OTHER -> c]

normalize_language_code(code) ==
  IF code = "" \/ code = "auto"
    THEN code
    ELSE IF Lower(code) \in DOMAIN GEMINI_LANG_CODES
           THEN GEMINI_LANG_CODES[Lower(code)]
           ELSE PrimarySubtag(code)

\* The two tests of the configure branch (gemini_server.py lines 1037 and
\* 1045, openai_server.py lines 816 and 824); a mutant lets the automatic
\* source through as a target.
ValidSource(code) == code = "auto" \/ code \in SUPPORTED_LANGUAGES

ValidTargetOrAuto(code) == code = "auto" \/ code \in SUPPORTED_LANGUAGES

ValidTarget(code) == code \in SUPPORTED_LANGUAGES

\* What a configure message leaves alone in the Gemini session when it is
\* refused, and in the OpenAI session always.
gstream == <<streaming_enabled, streaming_ready, gemini_session,
             session_task, has_queue, audio_queue, is_closing,
             in_model_turn, turn_active, waiting_for_turn_complete, tasks,
             nextChunk, forwarded, dropped>>

\* The turn of an OpenAI session, and the configured key.
yturn == <<client_api_key, is_speaking, is_responding, current_response_id,
           source_text, translated_text, deltas_received, translation_msgs,
           stream_audio,
           listener_audio_buffer, cancelled, resample_args, resampled_len,
           audio_received_since_commit, periodic_pc, response_requested,
           uncommitted>>

\* The same without the arguments and the result of resample_audio.
yturn_but_resample ==
  <<client_api_key, is_speaking, is_responding, current_response_id,
    source_text, translated_text, deltas_received, translation_msgs,
    stream_audio, listener_audio_buffer, cancelled,
    audio_received_since_commit, periodic_pc, response_requested,
    uncommitted>>

\* gemini_server.py lines 1031-1077: configure / config with the codes s
\* and t.
HConfigureMessage(s, t) ==
  LET new_source == normalize_language_code(s)
      new_target == normalize_language_code(t) IN
  IF ValidSource(new_source) /\ ValidTarget(new_target)
    THEN HConfigure(<<new_source, new_target>>)
    ELSE /\ server = "gemini"
         /\ hpc = "recv"
         /\ client_out' = <<"INVALID_LANGUAGE">>
         /\ UNCHANGED <<server, limits, xvars, yvars, ovars, gstream,
                        source_lang, target_lang, sessions, hpc, hctx, cpc,
                        cwait>>

\* openai_server.py lines 812-846: configure / config with the codes s and
\* t; the session.update is sent to the provider (lines 259-306) before the
\* answer to the client, and when that send raises the handler ends (lines
\* 788-799).
OConfigure(s, t, ok) ==
  /\ server = "openai"
  /\ hpc = "recv"
  /\ IF ValidSource(s) /\ ValidTarget(t)
       THEN /\ source_lang' = s
            /\ target_lang' = t
            /\ IF openai_ws # None /\ ~ok
                 THEN /\ openai_out' = <<>>
                      /\ client_out' = <<"SERVER_ERROR">>
                      /\ OCloseBegin("h")
                      /\ hpc' = "close"
                 ELSE /\ openai_out' = IF openai_ws # None
                                         THEN <<"session.update">>
                                         ELSE <<>>
                      /\ client_out' = <<"configured">>
                      /\ UNCHANGED <<active, periodic, periodic_alive, periodic_task,
                                     listener, ws_close_calls, openai_ws,
                                     cpc, hpc>>
       ELSE /\ client_out' = <<"INVALID_LANGUAGE">>
            /\ openai_out' = <<>>
            /\ UNCHANGED <<source_lang, target_lang, active, periodic,
                           periodic_alive,
                           periodic_task, listener, ws_close_calls,
                           openai_ws, cpc, hpc>>
  /\ UNCHANGED <<server, limits, xvars, yturn, gstream, sessions, hctx,
                 cwait, translation_mode, openai_listener_task>>

\* gemini_server.py lines 1176-1193: set_language stores a supported source
\* language; the streaming session is left as it is.
HSetLanguage(s) ==
  LET new_lang == normalize_language_code(s) IN
  /\ server = "gemini"
  /\ hpc = "recv"
  /\ IF new_lang # "" /\ new_lang \in SUPPORTED_LANGUAGES
       THEN /\ source_lang' = new_lang
            /\ client_out' = <<"language_set">>
       ELSE /\ client_out' = <<"INVALID_LANGUAGE">>
            /\ UNCHANGED source_lang
  /\ UNCHANGED <<server, limits, xvars, yvars, ovars, gstream, target_lang,
                 sessions, hpc, hctx, cpc, cwait>>

\* gemini_server.py lines 1195-1201: enable_auto_detect.
HEnableAutoDetect ==
  /\ server = "gemini"
  /\ hpc = "recv"
  /\ source_lang' = "auto"
  /\ client_out' = <<"auto_detect_enabled">>
  /\ UNCHANGED <<server, limits, xvars, yvars, ovars, gstream, target_lang,
                 sessions, hpc, hctx, cpc, cwait>>

\* gemini_server.py lines 1253-1258: ping is answered with pong, which
\* reports last_detected_lang and the size of the buffer (a mutant clears
\* the buffer, as the clear message does).
HPingClearing ==
  /\ server = "gemini"
  /\ hpc = "recv"
  /\ client_out' = <<"pong">>
  /\ audio_buffer' = 0
  /\ UNCHANGED <<server, limits, yvars, ovars, gstream, heard, relayed,
                 requests, source_lang, target_lang, sessions, hpc, hctx,
                 cpc, cwait>>

HPing ==
  /\ server = "gemini"
  /\ hpc = "recv"
  /\ client_out' = <<"pong">>
  /\ UNCHANGED <<server, limits, xvars, yvars, ovars, gstream, source_lang,
                 target_lang, sessions, hpc, hctx, cpc, cwait>>

\* openai_server.py lines 933-941: ping is answered with pong, which
\* reports the turn flags, the mode and stream_audio.
OPing ==
  /\ server = "openai"
  /\ hpc = "recv"
  /\ client_out' = <<"pong">>
  /\ UNCHANGED <<server, limits, xvars, yvars, ovars, gstream, source_lang,
                 target_lang, sessions, hpc, hctx, cpc, cwait>>

\* -------------------------------------- openai_server.py: audio and turns
\* What the handler steps below and the listener leave alone.
TurnFrame ==
  UNCHANGED <<server, limits, xvars, ovars, gstream, source_lang,
              target_lang, sessions, hpc, hctx, cpc, cwait, client_api_key,
              resample_args, resampled_len>>

\* The steps that neither receive a transcript delta nor start or end a
\* response leave the record of the deltas and of the messages alone.
TextFrame == UNCHANGED <<deltas_received, translation_msgs>>

\* What the periodic task and the requests for a response are about, left
\* alone by the steps that neither forward audio nor end a response.
CommitFrame ==
  UNCHANGED <<audio_received_since_commit, periodic_pc, response_requested,
              uncommitted>>

\* Lines 775-777 and 409-438: a binary frame is resampled and appended to
\* the input buffer of the provider; a failing send is logged.  The flag
\* for the periodic task is set before the send (line 415).
OAudio(ok) ==
  /\ server = "openai"
  /\ hpc = "recv"
  /\ openai_out' = IF openai_ws # None /\ active /\ ok
                     THEN <<"input_audio_buffer.append">>
                     ELSE <<>>
  /\ audio_received_since_commit' =
       (audio_received_since_commit \/ (openai_ws # None /\ active))
  /\ uncommitted' =
       (uncommitted \/ (openai_ws # None /\ active /\ ok /\ ~is_responding))
  /\ UNCHANGED <<periodic_pc, response_requested>>
  /\ client_out' = <<>>
  /\ TurnFrame
  /\ TextFrame
  /\ UNCHANGED <<is_speaking, is_responding, current_response_id,
                 source_text, translated_text, stream_audio,
                 listener_audio_buffer, cancelled>>

\* Lines 848-857: cancel; response.cancel is sent when a response id is
\* known, and a failing send is ignored.  cancelled records that the
\* request reached the provider while the response was in progress.
OCancel(ok) ==
  /\ server = "openai"
  /\ hpc = "recv"
  /\ IF openai_ws # None /\ current_response_id # None /\ ok
       THEN /\ openai_out' = <<"response.cancel">>
            /\ cancelled' = (cancelled \/ is_responding)
       ELSE /\ openai_out' = <<>>
            /\ UNCHANGED cancelled
  /\ client_out' = <<>>
  /\ TurnFrame
  /\ CommitFrame
  /\ TextFrame
  /\ UNCHANGED <<is_speaking, is_responding, current_response_id,
                 source_text, translated_text, stream_audio,
                 listener_audio_buffer>>

\* Lines 893-900: set_streaming.
OSetStreaming(enabled) ==
  /\ server = "openai"
  /\ hpc = "recv"
  /\ stream_audio' = enabled
  /\ client_out' = <<"streaming_mode">>
  /\ openai_out' = <<>>
  /\ TurnFrame
  /\ CommitFrame
  /\ TextFrame
  /\ UNCHANGED <<is_speaking, is_responding, current_response_id,
                 source_text, translated_text, listener_audio_buffer,
                 cancelled>>

\* Line 447-449: the listener is in its loop and recv() returns an event.
Listening ==
  /\ server = "openai"
  /\ listener.st = "running" /\ listener.cancel = 0
  /\ active /\ openai_ws # None

\* Lines 454-469: input_audio_buffer.speech_started / speech_stopped.  A
\* send to the client that raises is logged and the loop goes on (lines
\* 629-631); ok tells whether the sends of the step succeed.
OSpeech(started, ok) ==
  /\ Listening
  /\ is_speaking' = started
  /\ client_out' = IF ~ok THEN <<>>
                   ELSE IF started THEN <<"speech_started">>
                                   ELSE <<"speech_stopped">>
  /\ openai_out' = <<>>
  /\ TurnFrame
  /\ CommitFrame
  /\ TextFrame
  /\ UNCHANGED <<is_responding, current_response_id, source_text,
                 translated_text, stream_audio, listener_audio_buffer,
                 cancelled>>

\* Lines 488-499: response.created; the provider starts a response only
\* when none is in progress (a mutant keeps the text of the turn before).
OResponseCreatedKeepingText(ok) ==
  /\ Listening
  /\ ~is_responding
  /\ current_response_id < MaxResponses
  /\ current_response_id' = current_response_id + 1
  /\ source_text' = 0
  /\ deltas_received' = <<>>
  /\ translation_msgs' = <<>>
  /\ is_responding' = TRUE
  /\ listener_audio_buffer' = 0
  /\ cancelled' = FALSE
  /\ client_out' = IF ok THEN <<"translation_started">> ELSE <<>>
  /\ openai_out' = <<>>
  /\ TurnFrame
  /\ CommitFrame
  /\ UNCHANGED <<is_speaking, stream_audio, translated_text>>

OResponseCreated(ok) ==
  /\ Listening
  /\ ~is_responding
  /\ current_response_id < MaxResponses
  /\ current_response_id' = current_response_id + 1
  /\ source_text' = 0
  /\ translated_text' = <<>>
  /\ deltas_received' = <<>>
  /\ translation_msgs' = <<>>
  /\ is_responding' = TRUE
  /\ listener_audio_buffer' = 0
  /\ cancelled' = FALSE
  /\ client_out' = IF ok THEN <<"translation_started">> ELSE <<>>
  /\ openai_out' = <<>>
  /\ TurnFrame
  /\ CommitFrame
  /\ UNCHANGED <<is_speaking, stream_audio>>

\* Lines 502-517: response.audio.delta.
OAudioDelta(ok) ==
  /\ Listening
  /\ is_responding
  /\ listener_audio_buffer < MaxDeltas
  /\ listener_audio_buffer' = listener_audio_buffer + 1
  /\ client_out' = IF stream_audio /\ ok THEN <<"audio">> ELSE <<>>
  /\ openai_out' = <<>>
  /\ TurnFrame
  /\ CommitFrame
  /\ TextFrame
  /\ UNCHANGED <<is_speaking, is_responding, current_response_id,
                 source_text, translated_text, stream_audio, cancelled>>

\* The texts a transcript delta can carry.
TranscriptDeltas == {"a", "b"}

\* Lines 520-522: response.audio_transcript.delta carrying delta.
OTranscriptDelta(delta) ==
  /\ Listening
  /\ is_responding
  /\ Len(translated_text) < MaxDeltas
  /\ translated_text' = Append(translated_text, delta)
  /\ deltas_received' = Append(deltas_received, delta)
  /\ UNCHANGED translation_msgs
  /\ client_out' = <<>>
  /\ openai_out' = <<>>
  /\ TurnFrame
  /\ CommitFrame
  /\ UNCHANGED <<is_speaking, is_responding, current_response_id,
                 source_text, stream_audio, listener_audio_buffer,
                 cancelled>>

\* Lines 525-527: conversation.item.input_audio_transcription.completed.
OSourceTranscript ==
  /\ Listening
  /\ source_text' = 1
  /\ client_out' = <<>>
  /\ openai_out' = <<>>
  /\ TurnFrame
  /\ CommitFrame
  /\ TextFrame
  /\ UNCHANGED <<is_speaking, is_responding, current_response_id,
                 translated_text, stream_audio, listener_audio_buffer,
                 cancelled>>

\* The status of a response.done: "cancelled" only for a response the
\* client has cancelled.
DoneStatuses == {"completed", "cancelled"}

\* Lines 530-591: response.done; the translation message, the buffered
\* audio unless it was streamed, and unmute_input go to the client, and in
\* periodic mode the conversation of the provider is cleared.
OResponseDone(status, ok) ==
  /\ Listening
  /\ is_responding
  /\ status = "cancelled" => cancelled
  /\ is_responding' = FALSE
  /\ client_out' =
       IF ~ok THEN <<>>
       ELSE <<"translation">>
              \o (IF ~stream_audio /\ listener_audio_buffer > 0
                    THEN <<"audio">> ELSE <<>>)
              \o <<"unmute_input">>
  /\ openai_out' = IF ok /\ translation_mode = "periodic"
                     THEN <<"input_audio_buffer.clear">>
                     ELSE <<>>
  /\ translation_msgs' = IF ok THEN Append(translation_msgs, translated_text)
                               ELSE translation_msgs
  /\ response_requested' = FALSE
  /\ UNCHANGED <<deltas_received, audio_received_since_commit, periodic_pc,
                 uncommitted>>
  /\ TurnFrame
  /\ UNCHANGED <<is_speaking, current_response_id, source_text,
                 translated_text, stream_audio, listener_audio_buffer,
                 cancelled>>

OpenAIListener ==
  \/ \E started, ok \in BOOLEAN : OSpeech(started, ok)
  \/ \E ok \in BOOLEAN : OResponseCreated(ok)
  \/ \E ok \in BOOLEAN : OAudioDelta(ok)
  \/ \E delta \in TranscriptDeltas : OTranscriptDelta(delta)
  \/ OSourceTranscript
  \/ \E status \in DoneStatuses, ok \in BOOLEAN : OResponseDone(status, ok)

\* ------------------------------- openai_server.py: the periodic commit task
\* What the handler steps on the mode and the steps of the periodic task
\* leave alone in the turn of the session.
ycommit ==
  <<client_api_key, is_speaking, is_responding, current_response_id,
    source_text, translated_text, deltas_received, translation_msgs,
    stream_audio, listener_audio_buffer, cancelled, resample_args,
    resampled_len>>

PeriodicFrame ==
  UNCHANGED <<server, limits, xvars, ovars, gstream, source_lang,
              target_lang, sessions, hpc, hctx, cpc, cwait, ycommit>>

\* The periodic task is in its loop and has not been cancelled.
PeriodicRuns ==
  /\ server = "openai"
  /\ periodic.st = "running" /\ periodic.cancel = 0

\* Lines 325-347: the task wakes from its sleep, passes the three tests
\* (is_responding, audio_received_since_commit, the interval) and sends
\* input_audio_buffer.commit; a send that raises is logged (lines 357-358)
\* and the task sleeps again.
OPeriodicCommit(ok) ==
  /\ PeriodicRuns
  /\ periodic_pc = "sleep"
  /\ ~is_responding
  /\ audio_received_since_commit
  /\ openai_ws # None
  /\ IF ok
       THEN /\ openai_out' = <<"input_audio_buffer.commit">>
            /\ periodic_pc' = "commit"
            /\ uncommitted' = FALSE
       ELSE /\ openai_out' = <<>>
            /\ UNCHANGED <<periodic_pc, uncommitted>>
  /\ client_out' = <<>>
  /\ PeriodicFrame
  /\ UNCHANGED <<audio_received_since_commit, response_requested>>

\* Lines 345-352: the send of the commit has returned and response.create
\* is sent.
OPeriodicCreate(ok) ==
  /\ PeriodicRuns
  /\ periodic_pc = "commit"
  /\ IF ok
       THEN /\ openai_out' = <<"response.create">>
            /\ periodic_pc' = "create"
            /\ response_requested' = TRUE
       ELSE /\ openai_out' = <<>>
            /\ periodic_pc' = "sleep"
            /\ UNCHANGED response_requested
  /\ client_out' = <<>>
  /\ PeriodicFrame
  /\ UNCHANGED <<audio_received_since_commit, uncommitted>>

\* Lines 350-355: the send of response.create has returned; the time of
\* the commit is noted and audio_received_since_commit is reset.
OPeriodicReset ==
  /\ PeriodicRuns
  /\ periodic_pc = "create"
  /\ audio_received_since_commit' = FALSE
  /\ periodic_pc' = "sleep"
  /\ openai_out' = <<>>
  /\ client_out' = <<>>
  /\ PeriodicFrame
  /\ UNCHANGED <<response_requested, uncommitted>>

\* Lines 871-891: translate; the buffer is committed and a response is
\* requested whatever the mode and the state of the turn are, and a send
\* that raises is reported to the client.
OTranslate(ok) ==
  /\ server = "openai"
  /\ hpc = "recv"
  /\ IF openai_ws = None
       THEN /\ openai_out' = <<>>
            /\ client_out' = <<>>
            /\ UNCHANGED <<response_requested, uncommitted>>
       ELSE IF ok
         THEN /\ openai_out' = <<"input_audio_buffer.commit",
                                 "response.create">>
              /\ client_out' = <<>>
              /\ response_requested' = TRUE
              /\ uncommitted' = FALSE
         ELSE /\ openai_out' = <<>>
              /\ client_out' = <<"TRANSLATION_ERROR">>
              /\ UNCHANGED <<response_requested, uncommitted>>
  /\ PeriodicFrame
  /\ UNCHANGED <<audio_received_since_commit, periodic_pc>>

\* ------------------------------ openai_server.py: set_translation_mode
\* The values of the mode field of a set_translation_mode message: the two
\* modes and one that is not a mode.
ModeRequests == TranslationModes \cup {"fast"}

ModeFrame ==
  UNCHANGED <<server, limits, xvars, gonly, sessions, hctx, cwait, ycommit,
              audio_received_since_commit, response_requested, uncommitted,
              openai_listener_task>>

\* Lines 376 and 316-324: create_task(periodic_commit_task); the new task
\* runs up to its first sleep.
StartPeriodic ==
  /\ periodic_task' = 1
  /\ periodic' = [st |-> "running", cancel |-> 0]
  /\ periodic_alive' = periodic_alive + 1
  /\ periodic_pc' = "sleep"

\* Lines 367-386 after the await of the cancelled task, or when there was
\* no task to await: stop_periodic_task forgets the task, and
\* start_periodic_task creates one.
AfterAwait(stops, starts) ==
  IF stops /\ periodic_task # None
    THEN /\ periodic_task' = None
         /\ UNCHANGED <<periodic, periodic_alive, periodic_pc>>
    ELSE IF starts
      THEN StartPeriodic
      ELSE UNCHANGED <<periodic_task, periodic, periodic_alive, periodic_pc>>

\* Lines 902-921: the mode is validated and stored, and the periodic task
\* is stopped (stops) or started (starts); both cancel a task that exists
\* and await it, which suspends the handler while that task is running.
SetTranslationMode(mode, stops, starts) ==
  /\ server = "openai"
  /\ hpc = "recv"
  /\ openai_out' = <<>>
  /\ IF mode \notin TranslationModes
       THEN /\ client_out' = <<"INVALID_MODE">>
            /\ UNCHANGED <<translation_mode, periodic_task, periodic,
                           periodic_alive, periodic_pc, hpc>>
       ELSE /\ translation_mode' = mode
            /\ client_out' = <<>>
            /\ IF (stops \/ starts) /\ periodic_task # None
                  /\ periodic.st = "running"
                 THEN /\ periodic' = Cancel(periodic)
                      /\ hpc' = "mode_await"
                      /\ UNCHANGED <<periodic_task, periodic_alive,
                                     periodic_pc>>
                 ELSE /\ AfterAwait(stops, starts)
                      /\ hpc' = "mode_configure"
  /\ ModeFrame
  /\ UNCHANGED <<active, openai_ws, listener, ws_close_calls, cpc>>

\* Lines 902-921 as they are (a mutant leaves the task running when the
\* mode goes from periodic to vad).
OSetTranslationModeKeepingTask(mode) ==
  SetTranslationMode(mode, FALSE,
                     translation_mode = "vad" /\ mode = "periodic")

OSetTranslationMode(mode) ==
  SetTranslationMode(mode,
                     translation_mode = "periodic" /\ mode = "vad",
                     translation_mode = "vad" /\ mode = "periodic")

\* Lines 371-376 and 382-386: the cancelled task has finished and
\* stop_periodic_task or start_periodic_task goes on.
OModeResume ==
  /\ server = "openai"
  /\ hpc = "mode_await"
  /\ periodic.st # "running"
  /\ AfterAwait(translation_mode = "vad", translation_mode = "periodic")
  /\ hpc' = "mode_configure"
  /\ openai_out' = <<>>
  /\ client_out' = <<>>
  /\ ModeFrame
  /\ UNCHANGED <<translation_mode, active, openai_ws, listener,
                 ws_close_calls, cpc>>

\* Lines 923-931: configure_openai_session sends session.update and the
\* client is told of the new mode; when a send raises the handler ends
\* (lines 788-799).
OModeConfigure(ok) ==
  /\ server = "openai"
  /\ hpc = "mode_configure"
  /\ IF ok
       THEN /\ openai_out' = IF openai_ws # None THEN <<"session.update">>
                                                ELSE <<>>
            /\ client_out' = <<"translation_mode_changed">>
            /\ hpc' = "recv"
            /\ UNCHANGED <<active, periodic, periodic_alive, periodic_task,
                           listener, ws_close_calls, openai_ws, cpc>>
       ELSE /\ openai_out' = <<>>
            /\ client_out' = <<"SERVER_ERROR">>
            /\ OCloseBegin("h")
            /\ hpc' = "close"
  /\ ModeFrame
  /\ UNCHANGED <<translation_mode, periodic_pc>>

\* ------------------------------------------------------------- Next
Handler ==
  \/ HAudio
  \/ \E p \in ConfigPairs : HConfigure(p)
  \/ HConfigureReopen
  \/ HSetStreamingOn
  \/ HSetStreamingOff
  \/ HSetStreamingClosed
  \/ HCreatePoll
  \/ \E ok \in BOOLEAN : HActivityStart(ok)
  \/ \E ok \in BOOLEAN : HActivityEnd(ok)
  \/ HDisconnect
  \/ HCleanup
  \/ CloseJoin("h")

SessionTask ==
  \E i \in TaskIds :
    \/ TaskConnectOK(i)
    \/ TaskConnectFail(i)
    \/ TaskCancelled(i)
    \/ TaskExit(i)

SendLoop ==
  \E i \in TaskIds :
    \/ SendStart(i)
    \/ \E ok \in BOOLEAN : SendGet(i, ok)

ReceiveLoop ==
  \E i \in TaskIds :
    \/ RecvStart(i)
    \/ \E m \in Msgs : RecvDeliver(i, m)
    \/ \E t \in BOOLEAN : RecvError(i, t)

OpenAIHandler ==
  \/ \E ok \in BOOLEAN : OConnect(ok)
  \/ ODisconnect
  \/ OCleanup
  \/ OCloseResume("h")

OpenAITasks ==
  \/ \E closed \in BOOLEAN : OListenerStop(closed)
  \/ OListenerCancelled
  \/ OPeriodicStop
  \/ OPeriodicCancelled

Next ==
  \/ Handler
  \/ SessionTask
  \/ SendLoop
  \/ ReceiveLoop
  \/ OpenAIHandler
  \/ OpenAITasks

Spec == Init /\ [][Next]_vars

\* ------------------------------------------------- close, on its own
\* A session with an established provider channel, its handler waiting for
\* the next client message, and two callers about to close it.
InitClose ==
  \E q \in {<<>>, <<Chunk(1, TRUE, FALSE)>>}, m \in TranslationModes :
    LET g == server = "gemini"
        o == server = "openai" IN
    /\ server \in {"gemini", "openai"}
    /\ limits = (IF g THEN [tasks |-> 1, chunks |-> MaxChunks, events |-> 0]
                      ELSE [tasks |-> 1, chunks |-> 0, events |-> 0])
    /\ source_lang = DefaultPair[1]
    /\ target_lang = DefaultPair[2]
    /\ streaming_enabled = g
    /\ streaming_ready = g
    /\ gemini_session = (IF g THEN 1 ELSE None)
    /\ session_task = (IF g THEN 1 ELSE None)
    /\ has_queue = g
    /\ audio_queue = (IF g THEN q ELSE <<>>)
    /\ is_closing = FALSE
    /\ in_model_turn = FALSE
    /\ turn_active = g
    /\ waiting_for_turn_complete = FALSE
    /\ sessions = {"s1"}
    /\ tasks = [i \in TaskIds |->
                  IF g /\ i = 1
                    THEN [st |-> "running", cancel |-> 0, send |-> "get",
                          recv |-> "iter", langs |-> DefaultPair]
                    ELSE NoTask]
    /\ hpc = "recv"
    /\ hctx = (IF g THEN "set_streaming" ELSE "none")
    /\ cpc = [c \in Callers |-> "idle"]
    /\ cwait = [c \in Callers |-> None]
    /\ nextChunk = (IF g THEN Len(q) + 1 ELSE 1)
    /\ forwarded = <<>>
    /\ dropped = {}
    /\ client_out = <<>>
    /\ active = TRUE
    /\ openai_ws = (IF o THEN 1 ELSE None)
    /\ openai_listener_task = (IF o THEN 1 ELSE None)
    /\ listener = (IF o THEN [st |-> "running", cancel |-> 0] ELSE NoJob)
    /\ translation_mode = (IF o THEN m ELSE "vad")
    /\ periodic_task = (IF o /\ m = "periodic" THEN 1 ELSE None)
    /\ periodic = (IF o /\ m = "periodic"
                     THEN [st |-> "running", cancel |-> 0] ELSE NoJob)
    /\ periodic_alive = (IF o /\ m = "periodic" THEN 1 ELSE 0)
    /\ ws_close_calls = 0
    /\ heard = <<>>
    /\ relayed = <<>>
    /\ audio_buffer = 0
    /\ requests = <<>>
    /\ InitTurn
    /\ client_api_key = ""

\* A caller invokes close_streaming_session.
CallCloseStreaming(c) ==
  /\ server = "gemini"
  /\ cpc[c] = "idle"
  /\ CloseBegin(c)
  /\ client_out' = <<>>
  /\ UNCHANGED <<server, limits, yvars, xvars, ovars, source_lang, target_lang,
                 streaming_enabled, gemini_session, turn_active,
                 waiting_for_turn_complete, sessions, hpc, hctx, nextChunk,
                 forwarded, dropped>>

\* A caller invokes close_openai_session.
CallCloseOpenAI(c) ==
  /\ server = "openai"
  /\ cpc[c] = "idle"
  /\ OCloseBegin(c)
  /\ client_out' = <<>>
  /\ OFrame
  /\ UNCHANGED <<openai_listener_task, hpc>>

NextClose ==
  \/ \E c \in Callers :
       \/ CallCloseStreaming(c)
       \/ CloseJoin(c)
       \/ CallCloseOpenAI(c)
       \/ OCloseResume(c)
  \/ \E i \in TaskIds :
       \/ TaskCancelled(i)
       \/ TaskExit(i)
       \/ \E ok \in BOOLEAN : SendGet(i, ok)
       \/ RecvStart(i)
       \/ \E m \in Msgs : RecvDeliver(i, m)
       \/ \E t \in BOOLEAN : RecvError(i, t)
  \/ OpenAITasks

SpecClose == InitClose /\ [][NextClose]_vars

\* --------------------------------------------- an open session, scheduled
\* The steps of an open session that need no message from the client or
\* the provider: the event loop runs them once they can be taken.  A loop
\* that waits with a timeout (queue.get, line 527; recv, line 449) tests its
\* condition again when the timeout expires.
Scheduled ==
  \/ \E i \in TaskIds :
       \/ RecvStart(i)
       \/ \E ok \in BOOLEAN : SendGet(i, ok)
       \/ TaskCancelled(i)
       \/ TaskExit(i)
  \/ CloseJoin("h")
  \/ HCleanup
  \/ OListenerStop(FALSE)
  \/ OListenerCancelled
  \/ OPeriodicStop
  \/ OPeriodicCancelled
  \/ OCloseResume("h")
  \/ OCleanup

\* What the provider does: a message, an error raised by receive(), or the
\* closing of the connection.
ProviderStep ==
  \/ \E i \in TaskIds :
       \/ \E m \in Msgs : RecvDeliver(i, m)
       \/ \E t \in BOOLEAN : RecvError(i, t)
  \/ OListenerStop(TRUE)

\* What the client does: audio, turn signals, or it disconnects.
ClientStep ==
  \/ HAudio
  \/ \E ok \in BOOLEAN : HActivityStart(ok)
  \/ \E ok \in BOOLEAN : HActivityEnd(ok)
  \/ HDisconnect
  \/ ODisconnect

NextLive == Scheduled \/ ProviderStep \/ ClientStep

SpecLive == InitClose /\ [][NextLive]_vars /\ WF_vars(Scheduled)

\* ------------------------------------------ control messages and batches
\* A connection in buffer mode: binary frames are buffered and translated
\* on request, and text frames are control messages or malformed.
NextBatch ==
  \/ \E f \in FrameSizes : HBuffer(f)
  \/ HTranslate
  \/ \E ok, audio \in BOOLEAN : HTranslateDone(ok, audio)
  \/ \E p \in BatchPairs : HConfigure(p)
  \/ \E k \in MalformedKinds : HMalformed(k)
  \/ HDisconnect
  \/ \E k \in MalformedKinds : OMalformed(k)
  \/ HPing
  \/ OPing
  \/ OpenAIHandler
  \/ OpenAITasks

SpecBatch == Init /\ [][NextBatch]_vars

\* ------------------------------------------------ configure, on its own
\* An established session whose client sends configure, set_language and
\* enable_auto_detect messages: the Gemini session is closed and created
\* again for every accepted configure.
NextConfigure ==
  \/ \E s, t \in RequestCodes : HConfigureMessage(s, t)
  \/ \E s, t \in RequestCodes, ok \in BOOLEAN : OConfigure(s, t, ok)
  \/ \E s \in RequestCodes : HSetLanguage(s)
  \/ HEnableAutoDetect
  \/ HConfigureReopen
  \/ HCreatePoll
  \/ CloseJoin("h")
  \/ HDisconnect
  \/ HCleanup
  \/ SessionTask
  \/ SendLoop
  \/ \E i \in TaskIds : RecvStart(i)
  \/ ODisconnect
  \/ OCloseResume("h")
  \/ OCleanup
  \/ OpenAITasks

SpecConfigure == InitClose /\ [][NextConfigure]_vars

\* ------------------------------------------------ a connection, from start
\* The key of the server configuration (empty: none configured), and the
\* key a client presents in its query string (empty: none).
ClientKeys == {"", "k1"}

ApiKeys == {"", "k1", "k2"}

\* gemini_server.py lines 924-928 (a mutant lets every key pass).
verify_api_key_open(api_key) == TRUE

verify_api_key(api_key) ==
  IF client_api_key = "" THEN TRUE ELSE api_key = client_api_key

\* A connection request that has reached websocket_translate: nothing is
\* accepted or registered yet.  Only the Gemini server has a client key.
InitConnect ==
  /\ server \in {"gemini", "openai"}
  /\ limits = [tasks |-> 1, chunks |-> 0, events |-> 0]
  /\ InitFields
  /\ client_api_key \in (IF server = "gemini" THEN ClientKeys ELSE {""})
  /\ sessions = {}
  /\ client_out = <<>>
  /\ hpc = "accept"
  /\ translation_mode \in (IF server = "gemini" THEN {"vad"}
                                                 ELSE TranslationModes)

\* What the first steps of the handler leave alone.
ConnectFrame ==
  UNCHANGED <<server, limits, xvars, yvars, ovars, gstream, source_lang,
              target_lang, hctx, cpc, cwait>>

\* gemini_server.py lines 941-956: the key is verified; a connection with a
\* wrong key is closed with code 4001 and the handler returns (position
\* "rejected"), any other is accepted and its session registered.
HAccept(api_key) ==
  /\ server = "gemini"
  /\ hpc = "accept"
  /\ IF verify_api_key(api_key)
       THEN /\ sessions' = sessions \cup {"s1"}
            /\ hpc' = "welcome"
       ELSE /\ hpc' = "rejected"
            /\ UNCHANGED sessions
  /\ client_out' = <<>>
  /\ ConnectFrame

\* openai_server.py lines 712-722: the connection is accepted and its
\* session registered.
OAccept ==
  /\ server = "openai"
  /\ hpc = "accept"
  /\ sessions' = sessions \cup {"s1"}
  /\ hpc' = "welcome"
  /\ client_out' = <<>>
  /\ ConnectFrame

\* gemini_server.py lines 961-969 and openai_server.py lines 727-738: the
\* welcome message is sent before the try block is entered, so when the
\* send raises the exception leaves websocket_translate at once.
Welcome(ok) ==
  /\ hpc = "welcome"
  /\ IF ok
       THEN /\ client_out' = <<"connected">>
            /\ hpc' = IF server = "gemini" THEN "recv" ELSE "connect"
       ELSE /\ client_out' = <<>>
            /\ hpc' = "done"
  /\ UNCHANGED sessions
  /\ ConnectFrame

NextConnect ==
  \/ \E k \in ApiKeys : HAccept(k)
  \/ OAccept
  \/ \E ok \in BOOLEAN : Welcome(ok)
  \/ NextBatch

SpecConnect == InitConnect /\ [][NextConnect]_vars

\* ------------------------------------------------ OpenAI turns, on their own
\* An OpenAI session with its provider connection established: the client
\* sends audio, cancel and set_streaming, the provider sends the events of
\* its responses, and the client disconnects at some point.
InitListening == InitClose /\ server = "openai"

NextTurn ==
  \/ \E ok \in BOOLEAN : OAudio(ok)
  \/ \E ok \in BOOLEAN : OCancel(ok)
  \/ \E enabled \in BOOLEAN : OSetStreaming(enabled)
  \/ OpenAIListener
  \/ ODisconnect
  \/ OCloseResume("h")
  \/ OCleanup
  \/ OpenAITasks

SpecTurn == InitListening /\ [][NextTurn]_vars

\* ------------------------------------------ periodic mode, on its own
\* An OpenAI session with its provider connection established, in either
\* mode: the client sends audio, translate and set_translation_mode, the
\* periodic task commits, the provider answers the requests, and the
\* client disconnects at some point.
NextPeriodic ==
  \/ \E ok \in BOOLEAN : OAudio(ok)
  \/ \E ok \in BOOLEAN : OTranslate(ok)
  \/ \E mode \in ModeRequests : OSetTranslationMode(mode)
  \/ OModeResume
  \/ \E ok \in BOOLEAN : OModeConfigure(ok)
  \/ \E ok \in BOOLEAN : OPeriodicCommit(ok)
  \/ \E ok \in BOOLEAN : OPeriodicCreate(ok)
  \/ OPeriodicReset
  \/ \E ok \in BOOLEAN : OResponseCreated(ok)
  \/ \E ok \in BOOLEAN : OResponseDone("completed", ok)
  \/ ODisconnect
  \/ OCloseResume("h")
  \/ OCleanup
  \/ OpenAITasks

SpecPeriodic == InitListening /\ [][NextPeriodic]_vars

\* The same under the scheduling of the event loop: the periodic task wakes
\* every 100 ms, so a commit that stays possible is made and a send that
\* was awaited is resumed, on a connection that takes the messages; and
\* the provider ends a response it has started.
SpecPeriodicLive ==
  /\ SpecPeriodic
  /\ WF_vars(OPeriodicCommit(TRUE))
  /\ WF_vars(OPeriodicCreate(TRUE))
  /\ WF_vars(OPeriodicReset)
  /\ WF_vars(\E ok \in BOOLEAN : OResponseDone("completed", ok))

\* ------------------------------------------------ resample_audio, applied
\* The sample rates of the two sides: the client's and the provider's.
SampleRates == {ClientRate, GeminiRate}

\* A call of resample_audio on a buffer of n samples (lines 184-191).
ResampleCall(n, orig_sr, target_sr) ==
  /\ resample_args' = <<n, orig_sr, target_sr>>
  /\ resampled_len' = Resample(n, orig_sr, target_sr)
  /\ UNCHANGED <<server, limits, xvars, gvars, ovars, yturn_but_resample,
                 openai_out>>

NextResample ==
  \E n \in 0..MaxSamples, orig_sr, target_sr \in SampleRates :
    ResampleCall(n, orig_sr, target_sr)

SpecResample == Init /\ [][NextResample]_vars

\* ------------------------------------------------- the relay, on its own
\* A streaming session whose provider channel has just been established: the
\* handler waits for the next client message, the loops are starting, and
\* the relay of the first MaxEvents provider messages is recorded.
InitRelay ==
  /\ server = "gemini"
  /\ limits = [tasks |-> 1, chunks |-> 0, events |-> MaxEvents]
  /\ source_lang = DefaultPair[1]
  /\ target_lang = DefaultPair[2]
  /\ streaming_enabled = TRUE
  /\ streaming_ready = TRUE
  /\ gemini_session = 1
  /\ session_task = 1
  /\ has_queue = TRUE
  /\ audio_queue = <<>>
  /\ is_closing = FALSE
  /\ in_model_turn = FALSE
  /\ turn_active = FALSE
  /\ waiting_for_turn_complete = FALSE
  /\ sessions = {"s1"}
  /\ tasks = [i \in TaskIds |->
                IF i = 1
                  THEN [st |-> "running", cancel |-> 0, send |-> "top",
                        recv |-> "top", langs |-> DefaultPair]
                  ELSE NoTask]
  /\ hpc = "recv"
  /\ hctx = "set_streaming"
  /\ cpc = [c \in Callers |-> "idle"]
  /\ cwait = [c \in Callers |-> None]
  /\ nextChunk = 1
  /\ forwarded = <<>>
  /\ dropped = {}
  /\ client_out = <<"streaming_enabled">>
  /\ active = TRUE
  /\ openai_ws = None
  /\ openai_listener_task = None
  /\ periodic_task = None
  /\ translation_mode = "vad"
  /\ listener = NoJob
  /\ periodic = NoJob
  /\ periodic_alive = 0
  /\ ws_close_calls = 0
  /\ heard = <<>>
  /\ relayed = <<>>
  /\ audio_buffer = 0
  /\ requests = <<>>
  /\ InitTurn
  /\ client_api_key = ""

NextRelay ==
  \/ \E i \in TaskIds :
       \/ RecvStart(i)
       \/ \E m \in RelayMsgs : RecvDeliver(i, m)
       \/ \E t \in BOOLEAN : RecvError(i, t)
       \/ SendStart(i)
       \/ \E ok \in BOOLEAN : SendGet(i, ok)
       \/ TaskCancelled(i)
       \/ TaskExit(i)
  \/ \E ok \in BOOLEAN :
       \/ HActivityStart(ok)
       \/ HActivityEnd(ok)
       \/ HEndOfTurn(ok)
  \/ HDisconnect
  \/ CloseJoin("h")
  \/ HCleanup

SpecRelay == InitRelay /\ [][NextRelay]_vars

\* =========================================================== properties
\* A step passes a chunk to send_realtime_input.
Forwards == Len(forwarded') > Len(forwarded)

\* A step puts a client chunk (not the poison pill) into audio_queue.
Enqueues ==
  /\ Len(audio_queue') > Len(audio_queue)
  /\ audio_queue'[Len(audio_queue')] # Sentinel

SessionIdle == ~in_model_turn /\ ~turn_active /\ ~waiting_for_turn_complete

\* C1: the chunks passed to the provider are chunks that send_audio_chunk
\* took, each at most once and in the order in which they were taken; in
\* particular the chunks taken while a turn was being captured arrive in
\* the order of their admission.
C1_ForwardedInOrder ==
  /\ \A j \in DOMAIN forwarded : forwarded[j].id \in 1..(nextChunk - 1)
  /\ \A j, k \in DOMAIN forwarded :
       j < k => forwarded[j].id < forwarded[k].id

\* C1, the case: two chunks taken during a capturing turn were forwarded.
C1_TwoForwarded ==
  /\ Len(forwarded) = 2
  /\ \A j \in DOMAIN forwarded : forwarded[j].turn /\ ~forwarded[j].wait

C3_EnqueueOnlyInTurn == [][Enqueues => turn_active]_vars

\* C3 amended: a client chunk is put into audio_queue only if the session
\* is in streaming mode (streaming_enabled and streaming_ready), has a
\* queue and is not closing; the turn state is not consulted.
C3_EnqueueOnlyWhenStreaming ==
  [][Enqueues => /\ streaming_enabled /\ streaming_ready
                 /\ has_queue /\ ~is_closing]_vars

\* C3, the case: the queue holds a chunk that was taken while no turn was
\* being captured.
C3_EnqueuedOutsideTurn ==
  \E k \in DOMAIN audio_queue :
    audio_queue[k] # Sentinel /\ ~audio_queue[k].turn

\* C4: whenever the receive loop handles (does not discard) a provider
\* message with turn_complete set, the session is idle afterwards and the
\* last message sent to the client in that step is turn_complete.
C4_TurnCompleteLeavesIdle ==
  [][\A i \in TaskIds, m \in Msgs :
       (m.tc /\ ~is_closing /\ RecvDeliver(i, m))
         => /\ SessionIdle'
            /\ client_out' # <<>>
            /\ client_out'[Len(client_out')] = "turn_complete"]_vars

\* C5: two calls of close on one session run a single teardown: the task
\* that serves the session is cancelled once, one poison pill is queued,
\* and the provider websocket is closed once.
C5_SingleTeardown ==
  /\ \A i \in TaskIds : tasks[i].cancel <= 1
  /\ Cardinality({k \in DOMAIN audio_queue : audio_queue[k] = Sentinel}) <= 1
  /\ listener.cancel <= 1
  /\ periodic.cancel <= 1
  /\ ws_close_calls <= 1

\* C6: at most one _run_streaming_session task of the session is alive.
C6_AtMostOneLiveTask == Cardinality(LiveTasks) <= 1

\* C7: once the session has been removed from the registry, no task that
\* was started for it is still running or connecting.
C7_TasksEndedAtRemoval ==
  sessions = {} => /\ LiveTasks = {}
                   /\ listener.st # "running"
                   /\ periodic.st # "running"

\* C8: when close_streaming_session has returned, the relay loops have
\* ended, gemini_session is None, streaming_ready is false and audio_queue
\* is None.
C8_ClosedOnReturn ==
  \A c \in Callers :
    (server = "gemini" /\ cpc[c] = "returned")
      => /\ \A i \in TaskIds : tasks[i].send = "done" /\ tasks[i].recv = "done"
         /\ gemini_session = None
         /\ ~streaming_ready
         /\ ~has_queue

\* C9 as stated: the closing flag, once set, is never cleared.
C9_ClosingFlagMonotonic ==
  [][(is_closing => is_closing') /\ (~active => ~active')]_vars

\* C9 amended: active, once false, stays false; is_closing is cleared only
\* by the connection handler, after close_streaming_session has returned,
\* when it handles configure or set_streaming.
C9_ClearedOnlyAfterClose ==
  [][/\ ~active => ~active'
     /\ (is_closing /\ ~is_closing')
          => /\ hpc = "close" /\ cpc["h"] = "returned"
             /\ hctx \in {"configure", "set_streaming"}]_vars

\* C9, the case: a configure has closed the session, cleared is_closing
\* and is creating the new session.
C9_ClearedByConfigure ==
  server = "gemini" /\ hpc = "create" /\ hctx = "configure" /\ ~is_closing

\* C10: when streaming_session_ready is sent after a configure, the turn
\* state is idle.
C10_FreshTurnStateWhenReady ==
  client_out = <<"streaming_session_ready">> => SessionIdle

\* C11: when the readiness poll that follows a configure ends without the
\* new session being ready, that step sends the client an error message.
C11_ReconfigureFailureNotified ==
  [][(HCreatePoll /\ hctx = "configure" /\ ~streaming_ready)
       => client_out' = <<"error">>]_vars

\* The frames a client is to get for provider message m: the audio
\* resampled from 24 kHz to 16 kHz (two samples for every three), then the
\* translated text, then turn_complete.
ExpectedFrames(m) ==
  (IF m.mt THEN <<[type |-> "audio", samples |-> (2 * m.data) \div 3]>>
           ELSE <<>>)
  \o (IF m.outTr THEN <<[type |-> "translated_text", samples |-> 0]>>
                 ELSE <<>>)
  \o (IF m.tc THEN <<[type |-> "turn_complete", samples |-> 0]>> ELSE <<>>)

RECURSIVE Expected(_)
Expected(h) ==
  IF h = <<>> THEN <<>> ELSE ExpectedFrames(Head(h)) \o Expected(Tail(h))

\* A frame that carries a provider event (not the model_turn_started notice).
IsEventFrame(f) == f.type # "model_turn_started"

\* C12: when the receive loop has handled a provider message with
\* turn_complete set in a session that is not closing, it has not ended: it
\* is waiting on receive() again.
C12_ResubscribesAfterTurnComplete ==
  [][\A i \in TaskIds, m \in RelayMsgs :
       (m.tc /\ ~is_closing /\ RecvDeliver(i, m))
         => tasks'[i].recv = "iter"]_vars

\* C12, the case: after a turn_complete the loop has handled an audio delta
\* of the next turn and sent its audio to the client.
C12_LaterTurnRelayed ==
  /\ Len(heard) = 2
  /\ heard[1] = TurnComplete
  /\ heard[2] = AudioDelta(480)
  /\ relayed # <<>>
  /\ relayed[Len(relayed)] = [type |-> "audio", samples |-> 320]

\* C13: the frames sent to the client for the recorded provider messages
\* are, apart from model_turn_started notices, exactly the frames of these
\* messages in the order in which the messages arrived, the audio
\* resampled; and in the state that follows the sending of turn_complete
\* the turn state is idle.
C13_RelayedInOrder ==
  /\ SelectSeq(relayed, IsEventFrame) = Expected(heard)
  /\ (client_out # <<>> /\ client_out[Len(client_out)] = "turn_complete")
       => SessionIdle

\* C13, the case: AudioDelta(b1), AudioDelta(b2), TurnComplete have been
\* handled, and the client was sent the notice that the model turn started,
\* b1 and b2 resampled, and then turn_complete.
C13_ThreeEventsRelayed ==
  /\ heard = <<AudioDelta(240), AudioDelta(480), TurnComplete>>
  /\ relayed = <<[type |-> "model_turn_started", samples |-> 0],
                 [type |-> "audio", samples |-> 160],
                 [type |-> "audio", samples |-> 320],
                 [type |-> "turn_complete", samples |-> 0]>>
  /\ client_out = <<"turn_complete">>
  /\ SessionIdle

\* A loop of session task i has ended although no close was requested:
\* the provider send raised in _send_loop (line 573), or receive() raised a
\* close or service error in _receive_loop (lines 819-824).
LoopFailed(i) ==
  /\ tasks[i].st = "running"
  /\ ~is_closing
  /\ tasks[i].send = "done" \/ tasks[i].recv = "done"

\* The listener has ended although no close was requested (line 628).
ListenerFailed == listener.st = "done" /\ active

\* The session is torn down: no loop runs and the channel is released.
TornDown ==
  /\ LiveTasks = {}
  /\ gemini_session = None
  /\ listener.st # "running"
  /\ periodic.st # "running"
  /\ openai_ws = None

\* C14: after a loop of a session has ended on an error, the session is
\* eventually closed: no loop runs, the channel is released, and the
\* session does not report itself ready (streaming_ready, active).
C14_LoopErrorClosesSession ==
  /\ \A i \in TaskIds :
       LoopFailed(i) ~> (TornDown /\ ~streaming_ready)
  /\ ListenerFailed ~> (TornDown /\ ~active)

\* C15: if from some point on the provider sends nothing, the session is
\* eventually torn down.
C15_SilentProviderTornDown ==
  <>[][~ProviderStep]_vars => <>TornDown

\* A retry: receive() raised a transient error and the loop goes on.
RetryStep == \E i \in TaskIds : RecvError(i, FALSE)

\* The provider delivers a message to the receive loop.
DeliverStep == \E i \in TaskIds, m \in Msgs : RecvDeliver(i, m)

\* C16: the receive loop does not retry without end: if it retries
\* infinitely often then messages arrive infinitely often in between.
C16_RetriesBounded ==
  []<><<RetryStep>>_vars => []<><<DeliverStep>>_vars

\* C17: a malformed control message does not end the connection handler:
\* the step that handles it sends one error message with a code, leaves the
\* session as it was, and the handler waits for the next client message.
C17_MalformedAnswered ==
  [][\A k \in MalformedKinds :
       (HMalformed(k) \/ OMalformed(k))
         => /\ hpc' = "recv"
            /\ client_out' \in {<<c>> : c \in ErrorCodes}
            /\ UNCHANGED <<sessions, is_closing, active, source_lang,
                           target_lang, audio_buffer>>]_vars

\* C18: an activity_start, activity_end or end_of_turn is acknowledged
\* (activity_start_sent, activity_end_sent, end_of_turn_sent) if the signal
\* was delivered to the provider (the channel is live and the send
\* returned), and is answered with an error message otherwise.
C18_AckOnlyWhenDelivered ==
  [][\A ok \in BOOLEAN :
       LET answer(ack) == IF ChannelLive /\ ok THEN <<ack>> ELSE <<"error">>
       IN /\ HActivityStart(ok) => client_out' = answer("activity_start_sent")
          /\ HActivityEnd(ok) => client_out' = answer("activity_end_sent")
          /\ HEndOfTurn(ok) => client_out' = answer("end_of_turn_sent")]_vars

\* C19: a translate issued while the buffer holds MinAudioBytes (50 ms of
\* audio) or less is answered with AUDIO_TOO_SHORT, calls process_audio not
\* at all, and leaves the buffer empty.
C19_ShortAudioRejected ==
  [][(HTranslate /\ audio_buffer <= MinAudioBytes)
       => /\ client_out' = <<"AUDIO_TOO_SHORT">>
          /\ requests' = requests
          /\ audio_buffer' = 0]_vars

\* C20: when the handling of a translate message ends (rejected as too
\* short, or process_audio has returned or raised), the buffer is empty;
\* and the buffer is empty whenever the last message sent reports the
\* outcome of a translate.
C20_BufferEmptyAfterTranslate ==
  [][(\/ HTranslate /\ hpc' = "recv"
      \/ \E ok, audio \in BOOLEAN : HTranslateDone(ok, audio))
       => /\ audio_buffer' = 0
          /\ client_out' \in {<<"AUDIO_TOO_SHORT">>, <<"TRANSLATION_ERROR">>,
                               <<"skipped">>, <<"translation">>,
                               <<"translation", "audio">>}]_vars

\* C20, the case: a translate of 75 ms of audio was followed by a translate
\* of 50 ms of audio, and the second request carried the 50 ms only.
C20_SecondRequestFresh ==
  /\ requests = <<3 * FrameBytes, 2 * FrameBytes>>
  /\ client_out = <<"translation", "audio">>
  /\ audio_buffer = 0

\* C21: a configure message whose source is "auto" or a supported language
\* and whose target is a supported language sets the pair of the session to
\* exactly these codes, and the next message the handler sends is
\* "configured".
C21_ValidConfigureAnswered ==
  [][\A s, t \in RequestCodes :
       (/\ s \in {"auto"} \cup SUPPORTED_LANGUAGES
        /\ t \in SUPPORTED_LANGUAGES
        /\ \/ HConfigureMessage(s, t)
           \/ \E ok \in BOOLEAN : OConfigure(s, t, ok))
         => /\ source_lang' = s
            /\ target_lang' = t
            /\ client_out' = <<"configured">>]_vars

\* C22: a configure message whose source or target is not a supported
\* language (in the Gemini server: after normalisation of the code) is
\* answered with INVALID_LANGUAGE, leaves both languages as they were,
\* reconfigures nothing at the provider and closes nothing, and the handler
\* goes on receiving.
C22_InvalidConfigureRefused ==
  [][\A s, t \in RequestCodes :
       LET ns == IF server = "gemini" THEN normalize_language_code(s) ELSE s
           nt == IF server = "gemini" THEN normalize_language_code(t) ELSE t
       IN
       (/\ \/ ns \notin {"auto"} \cup SUPPORTED_LANGUAGES
           \/ nt \notin SUPPORTED_LANGUAGES
        /\ \/ HConfigureMessage(s, t)
           \/ \E ok \in BOOLEAN : OConfigure(s, t, ok))
         => /\ client_out' = <<"INVALID_LANGUAGE">>
            /\ UNCHANGED <<source_lang, target_lang>>
            /\ UNCHANGED <<gstream, cpc, openai_ws, active, listener,
                           sessions>>
            /\ openai_out' # <<"session.update">>
            /\ hpc' = "recv"]_vars

\* A refused configure message in a session whose provider channel is open.
C22_RefusedWhileStreaming ==
  /\ client_out = <<"INVALID_LANGUAGE">>
  /\ hpc = "recv"
  /\ \/ server = "gemini" /\ streaming_ready /\ gemini_session # None
     \/ server = "openai" /\ openai_ws # None

\* C23: the outbound audio queue of a streaming session is bounded: it has
\* a fixed capacity and never holds more items than that.
C23_QueueBounded ==
  has_queue => (QueueMaxSize > 0 /\ Len(audio_queue) <= QueueMaxSize)

\* C24: at every moment at most one send loop takes items from the audio
\* queue of the session.
C24_OneConsumer ==
  Cardinality({ i \in TaskIds :
                  tasks[i].st = "running" /\ tasks[i].send = "get" }) <= 1

\* C25: server.sessions holds the id of a session exactly while the handler
\* of its connection runs: from the registration on connect until the
\* handler has ended, by whatever path.
C25_RegisteredWhileHandlerRuns ==
  ("s1" \in sessions) <=> (hpc \notin {"accept", "rejected", "done"})

\* C26: with a client key configured, a connection that presents another
\* key is closed with code 4001 before it is accepted and no session is
\* registered for it, then or later; with no key configured every
\* connection passes the test.
C26_WrongKeyRejected ==
  [][/\ \A k \in ApiKeys :
          HAccept(k) =>
            IF client_api_key # "" /\ k # client_api_key
              THEN hpc' = "rejected" /\ sessions' = {}
              ELSE hpc' = "welcome" /\ sessions' = {"s1"}
     /\ hpc = "rejected" => (hpc' = "rejected" /\ sessions' = {})]_vars

\* A connection rejected for its key, on a server that has one configured.
C26_Rejected ==
  /\ client_api_key = "k1"
  /\ hpc = "rejected"
  /\ sessions = {}

\* C27: in the OpenAI server a client audio chunk that arrives while a
\* response is awaited or in progress (is_responding) is dropped: nothing
\* is sent to the provider for it.
C27_NoAudioWhileResponding ==
  [][\A ok \in BOOLEAN :
       (OAudio(ok) /\ is_responding) => openai_out' = <<>>]_vars

\* C28: after the OpenAI listener has handled response.done, is_responding
\* is false and source_text and translated_text are empty, however many
\* transcript deltas came before.
C28_TurnResetAfterDone ==
  [][\A status \in DoneStatuses, ok \in BOOLEAN :
       OResponseDone(status, ok)
         => /\ ~is_responding'
            /\ source_text' = 0
            /\ translated_text' = <<>>]_vars

\* C29: the OpenAI listener forwards every response.audio.delta to the
\* client in the step that receives it, whatever stream_audio is, so that no
\* audio of a turn is sent with or after the translation message of the
\* turn.
C29_AudioForwardedAtOnce ==
  [][/\ OAudioDelta(TRUE) => client_out' = <<"audio">>
     /\ \A status \in DoneStatuses :
          OResponseDone(status, TRUE)
            => client_out' = <<"translation", "unmute_input">>]_vars

\* C30: a response that the client has cancelled while it was in progress
\* leads to no translation message for the client.
C30_NoTranslationAfterCancel ==
  [][\A status \in DoneStatuses, ok \in BOOLEAN :
       (OResponseDone(status, ok) /\ cancelled)
         => \A j \in 1..Len(client_out') :
              client_out'[j] # "translation"]_vars

\* C34: a chunk that was put into the queue while no turn was being
\* captured (turn_active false) or while the turn awaited its response
\* (waiting_for_turn_complete true) is never forwarded to the provider,
\* whenever _send_loop takes it from the queue.
C34_WrongStateChunksDropped ==
  \A j \in DOMAIN forwarded : forwarded[j].turn /\ ~forwarded[j].wait

\* C35: between a delivered activity_start and the next activity_end, close
\* or reconfiguration, turn_active stays true: no provider message sets it
\* to false.
C35_ProviderKeepsTurnActive ==
  [][\A i \in TaskIds, m \in Msgs :
       (RecvDeliver(i, m) /\ turn_active) => turn_active']_vars

\* C36: whenever streaming_ready is true, streaming is enabled, the session
\* holds a provider channel, and the send loop and the receive loop of that
\* channel are running.
C36_ReadyMeansLiveChannel ==
  (server = "gemini" /\ streaming_ready)
    => /\ streaming_enabled
       /\ gemini_session # None
       /\ tasks[gemini_session].st = "running"
       /\ tasks[gemini_session].send # "done"
       /\ tasks[gemini_session].recv # "done"

\* C37: whenever a streaming channel is ready and the handler waits for the
\* next client message, the channel was opened with the language pair the
\* session has now.
C37_ChannelHasSessionLanguages ==
  (/\ server = "gemini"
   /\ hpc = "recv"
   /\ streaming_ready
   /\ gemini_session # None
   /\ tasks[gemini_session].st = "running")
    => tasks[gemini_session].langs = <<source_lang, target_lang>>

\* C33: resample_audio on N samples at rate R_in with target R_out returns
\* round(N * R_out / R_in) samples (halves rounded to even, as round does),
\* and N samples when the two rates are equal.
C33_ResampledLengthRounded ==
  LET n == resample_args[1]
      orig_sr == resample_args[2]
      target_sr == resample_args[3]
      q == (n * target_sr) \div orig_sr
      r == (n * target_sr) % orig_sr
      rounded == IF 2 * r < orig_sr THEN q
                 ELSE IF 2 * r > orig_sr THEN q + 1
                 ELSE IF q % 2 = 0 THEN q ELSE q + 1
  IN resampled_len = (IF orig_sr = target_sr THEN n ELSE rounded)

\* C32: a ping message is answered with exactly one pong and changes no
\* session state, in both servers: the languages, the audio buffer, the
\* outbound queue, the turn flags and the streaming flags are as before.
C32_PingChangesNothing ==
  [][(HPing \/ OPing)
       => /\ client_out' = <<"pong">>
          /\ UNCHANGED <<source_lang, target_lang, audio_buffer, has_queue,
                         audio_queue, in_model_turn, turn_active,
                         waiting_for_turn_complete, streaming_enabled,
                         streaming_ready, is_closing, is_speaking,
                         is_responding, stream_audio, translation_mode,
                         active, sessions, hpc>>]_vars

\* A ping answered while the batch buffer holds audio.
C32_PongWithAudioBuffered ==
  /\ client_out = <<"pong">>
  /\ audio_buffer > 0

\* C31: on each response.done whose messages the client connection takes,
\* the OpenAI listener sends exactly one translation message, and its
\* translated_text is the concatenation, in the order of arrival, of
\* exactly the transcript deltas received since the response.created of
\* that response.
C31_TranslationIsTheDeltasOfTheTurn ==
  [][\A status \in DoneStatuses :
       OResponseDone(status, TRUE)
         => /\ Len(SelectSeq(client_out', LAMBDA e : e = "translation")) = 1
            /\ translation_msgs' = <<deltas_received>>]_vars

\* The translation of a second response is sent, made of two deltas in the
\* order they came in.
C31_SecondTurnTranslated ==
  /\ current_response_id = 2
  /\ ~is_responding
  /\ client_out # <<>> /\ client_out[1] = "translation"
  /\ translation_msgs = << <<"b", "a">> >>

\* C40: while an OpenAI session is active at most one periodic commit task
\* exists for it; after the connection setup and after every handled
\* set_translation_mode message (the handler is back at its receive) a
\* periodic task is running if and only if translation_mode is "periodic";
\* and a set_translation_mode with an invalid mode is answered with
\* INVALID_MODE and changes neither the mode nor the task.
C40_PeriodicTaskIffPeriodicMode ==
  /\ []((server = "openai" /\ active) => periodic_alive <= 1)
  /\ []((server = "openai" /\ active /\ hpc = "recv")
          => ((periodic_task # None /\ periodic.st = "running")
                <=> translation_mode = "periodic"))
  /\ [][\A mode \in ModeRequests \ TranslationModes :
          OSetTranslationMode(mode)
            => /\ client_out' = <<"INVALID_MODE">>
               /\ UNCHANGED <<translation_mode, periodic_task, periodic,
                              periodic_alive, hpc>>]_vars

\* A set_translation_mode from vad to periodic has been handled and
\* answered, and the task it started runs.
C40_SwitchedToPeriodic ==
  /\ server = "openai" /\ active /\ hpc = "recv"
  /\ client_out = <<"translation_mode_changed">>
  /\ translation_mode = "periodic"
  /\ periodic.st = "running" /\ periodic.cancel = 0
  /\ periodic_alive = 1
  /\ ws_close_calls = 0

\* A step sends response.create to the provider: the periodic task does,
\* or the translate branch of the handler.
RequestsResponse ==
  \/ OPeriodicCreate(TRUE)
  \/ OTranslate(TRUE) /\ openai_ws # None

\* C38: in periodic mode the periodic task sends input_audio_buffer.commit
\* and response.create only when audio has been received since the last
\* commit, and never while a response requested earlier, by the periodic
\* task or by a translate message, has not reached response.done: at most
\* one requested response is outstanding.
C38_OneOutstandingResponse ==
  [][/\ OPeriodicCommit(TRUE)
          => (audio_received_since_commit /\ ~response_requested)
     /\ (translation_mode = "periodic" /\ RequestsResponse)
          => ~response_requested]_vars

\* C39: in periodic mode every audio chunk forwarded to the provider while
\* no response is in progress is eventually followed by a commit, however
\* send_audio_chunk and the periodic task interleave and even if no more
\* audio arrives, unless the session stops being active or leaves periodic
\* mode.
C39_ForwardedAudioIsCommitted ==
  uncommitted ~> (~uncommitted \/ ~active \/ translation_mode # "periodic")

====
